---- MODULE Spec2Model ----
(***************************************************************************)
(* The CloudFront storage middleware of the registry                       *)
(* (registry/storage/driver/middleware/cloudfront/middleware.go): its      *)
(* constructor, its RedirectURL handler, and the AWS address-range         *)
(* refresher (awsIPs) the handler reads.                                   *)
(*                                                                         *)
(* Strings are sequences of characters, so that Contains, HasSuffix,       *)
(* TrimSpace, ToLower, Split and ParseDuration are computed. A character   *)
(* is a one-character string; one that cannot be written so is named by    *)
(* its code point ("U+000B" is the vertical tab).                          *)
(* A uint64 or int64 value (a time.Duration is an int64 count of           *)
(* nanoseconds) is a sequence of digits, as TLC's integers have 32 bits;   *)
(* the clock is counted in milliseconds.                                   *)
(***************************************************************************)
EXTENDS Integers, Sequences, FiniteSets, TLC

\* ------------------------------------------------------------------ bounds
\* RedirectURL calls made on one middleware instance.
MaxRequests == 2
\* Clock ticks (time.Now() advances between requests).
MaxClock == 1
\* Ticks of the background refresh loop.
MaxRefreshes == 2

\* ------------------------------------------------------------- Go strings
None == "<nil>"

\* A Go error: its message, the message of the error it wraps and the input
\* that error quotes. NoErr is the nil error.
Err(msg, cause, input) == [msg |-> msg, cause |-> cause, input |-> input]
NoErr == Err(None, None, <<>>)

HasPrefixAt(s, sub, i) ==
    /\ i + Len(sub) - 1 <= Len(s)
    /\ \A k \in 1..Len(sub) : s[i + k - 1] = sub[k]

\* strings.Contains
Contains(s, sub) == \E i \in 1..(Len(s) + 1) : HasPrefixAt(s, sub, i)

\* strings.HasSuffix
HasSuffix(s, suf) ==
    /\ Len(suf) <= Len(s)
    /\ HasPrefixAt(s, suf, Len(s) - Len(suf) + 1)

UpperChars == <<"A","B","C","D","E","F","G","H","I","J","K","L","M",
                "N","O","P","Q","R","S","T","U","V","W","X","Y","Z">>
LowerChars == <<"a","b","c","d","e","f","g","h","i","j","k","l","m",
                "n","o","p","q","r","s","t","u","v","w","x","y","z">>

Digits == <<"0","1","2","3","4","5","6","7","8","9">>
IsDigit(c) == \E i \in 1..Len(Digits) : Digits[i] = c
DigitVal(c) == (CHOOSE i \in 1..Len(Digits) : Digits[i] = c) - 1

IsLetter(c) ==
    \/ \E i \in 1..Len(UpperChars) : UpperChars[i] = c
    \/ \E i \in 1..Len(LowerChars) : LowerChars[i] = c

\* The printable ASCII characters in the order of their codes, from 0x20
\* (U+0060 is the grave accent), and the control characters (below 0x20, and
\* 0x7F).
Printable ==
    <<" ", "!", "\"", "#", "$", "%", "&", "'", "(", ")", "*", "+", ",", "-", ".", "/">>
      \o Digits \o <<":", ";", "<", "=", ">", "?", "@">>
      \o UpperChars \o <<"[", "\\", "]", "^", "_", "U+0060">>
      \o LowerChars \o <<"{", "|", "}", "~">>
CtlChars ==
    {"U+0000", "U+0001", "U+0002", "U+0003", "U+0004", "U+0005", "U+0006", "U+0007",
     "U+0008", "\t", "\n", "U+000B", "\f", "\r", "U+000E", "U+000F",
     "U+0010", "U+0011", "U+0012", "U+0013", "U+0014", "U+0015", "U+0016", "U+0017",
     "U+0018", "U+0019", "U+001A", "U+001B", "U+001C", "U+001D", "U+001E", "U+001F",
     "U+007F"}
AsciiChars == CtlChars \cup { Printable[i] : i \in 1..Len(Printable) }

\* unicode.CaseRanges, for the characters outside ASCII: the code points whose
\* lower case is another code point (UnicodeUpper), and that lower case
\* (UnicodeLower), from the Unicode Character Database 14.0.0.
UnicodeUpper ==
    << "U+00C0", "U+00C1", "U+00C2", "U+00C3", "U+00C4", "U+00C5", "U+00C6", "U+00C7", "U+00C8",
       "U+00C9", "U+00CA", "U+00CB", "U+00CC", "U+00CD", "U+00CE", "U+00CF", "U+00D0", "U+00D1",
       "U+00D2", "U+00D3", "U+00D4", "U+00D5", "U+00D6", "U+00D8", "U+00D9", "U+00DA", "U+00DB",
       "U+00DC", "U+00DD", "U+00DE", "U+0100", "U+0102", "U+0104", "U+0106", "U+0108", "U+010A",
       "U+010C", "U+010E", "U+0110", "U+0112", "U+0114", "U+0116", "U+0118", "U+011A", "U+011C",
       "U+011E", "U+0120", "U+0122", "U+0124", "U+0126", "U+0128", "U+012A", "U+012C", "U+012E",
       "U+0130", "U+0132", "U+0134", "U+0136", "U+0139", "U+013B", "U+013D", "U+013F", "U+0141",
       "U+0143", "U+0145", "U+0147", "U+014A", "U+014C", "U+014E", "U+0150", "U+0152", "U+0154",
       "U+0156", "U+0158", "U+015A", "U+015C", "U+015E", "U+0160", "U+0162", "U+0164", "U+0166",
       "U+0168", "U+016A", "U+016C", "U+016E", "U+0170", "U+0172", "U+0174", "U+0176", "U+0178",
       "U+0179", "U+017B", "U+017D", "U+0181", "U+0182", "U+0184", "U+0186", "U+0187", "U+0189",
       "U+018A", "U+018B", "U+018E", "U+018F", "U+0190", "U+0191", "U+0193", "U+0194", "U+0196",
       "U+0197", "U+0198", "U+019C", "U+019D", "U+019F", "U+01A0", "U+01A2", "U+01A4", "U+01A6",
       "U+01A7", "U+01A9", "U+01AC", "U+01AE", "U+01AF", "U+01B1", "U+01B2", "U+01B3", "U+01B5",
       "U+01B7", "U+01B8", "U+01BC", "U+01C4", "U+01C5", "U+01C7", "U+01C8", "U+01CA", "U+01CB",
       "U+01CD", "U+01CF", "U+01D1", "U+01D3", "U+01D5", "U+01D7", "U+01D9", "U+01DB", "U+01DE",
       "U+01E0", "U+01E2", "U+01E4", "U+01E6", "U+01E8", "U+01EA", "U+01EC", "U+01EE", "U+01F1",
       "U+01F2", "U+01F4", "U+01F6", "U+01F7", "U+01F8", "U+01FA", "U+01FC", "U+01FE", "U+0200",
       "U+0202", "U+0204", "U+0206", "U+0208", "U+020A", "U+020C", "U+020E", "U+0210", "U+0212",
       "U+0214", "U+0216", "U+0218", "U+021A", "U+021C", "U+021E", "U+0220", "U+0222", "U+0224",
       "U+0226", "U+0228", "U+022A", "U+022C", "U+022E", "U+0230", "U+0232", "U+023A", "U+023B",
       "U+023D", "U+023E", "U+0241", "U+0243", "U+0244", "U+0245", "U+0246", "U+0248", "U+024A",
       "U+024C", "U+024E", "U+0370", "U+0372", "U+0376", "U+037F", "U+0386", "U+0388", "U+0389",
       "U+038A", "U+038C", "U+038E", "U+038F", "U+0391", "U+0392", "U+0393", "U+0394", "U+0395",
       "U+0396", "U+0397", "U+0398", "U+0399", "U+039A", "U+039B", "U+039C", "U+039D", "U+039E",
       "U+039F", "U+03A0", "U+03A1", "U+03A3", "U+03A4", "U+03A5", "U+03A6", "U+03A7", "U+03A8",
       "U+03A9", "U+03AA", "U+03AB", "U+03CF", "U+03D8", "U+03DA", "U+03DC", "U+03DE", "U+03E0",
       "U+03E2", "U+03E4", "U+03E6", "U+03E8", "U+03EA", "U+03EC", "U+03EE", "U+03F4", "U+03F7",
       "U+03F9", "U+03FA", "U+03FD", "U+03FE", "U+03FF", "U+0400", "U+0401", "U+0402", "U+0403",
       "U+0404", "U+0405", "U+0406", "U+0407", "U+0408", "U+0409", "U+040A", "U+040B", "U+040C",
       "U+040D", "U+040E", "U+040F", "U+0410", "U+0411", "U+0412", "U+0413", "U+0414", "U+0415",
       "U+0416", "U+0417", "U+0418", "U+0419", "U+041A", "U+041B", "U+041C", "U+041D", "U+041E",
       "U+041F", "U+0420", "U+0421", "U+0422", "U+0423", "U+0424", "U+0425", "U+0426", "U+0427",
       "U+0428", "U+0429", "U+042A", "U+042B", "U+042C", "U+042D", "U+042E", "U+042F", "U+0460",
       "U+0462", "U+0464", "U+0466", "U+0468", "U+046A", "U+046C", "U+046E", "U+0470", "U+0472",
       "U+0474", "U+0476", "U+0478", "U+047A", "U+047C", "U+047E", "U+0480", "U+048A", "U+048C",
       "U+048E", "U+0490", "U+0492", "U+0494", "U+0496", "U+0498", "U+049A", "U+049C", "U+049E",
       "U+04A0", "U+04A2", "U+04A4", "U+04A6", "U+04A8", "U+04AA", "U+04AC", "U+04AE", "U+04B0",
       "U+04B2", "U+04B4", "U+04B6", "U+04B8", "U+04BA", "U+04BC", "U+04BE", "U+04C0", "U+04C1",
       "U+04C3", "U+04C5", "U+04C7", "U+04C9", "U+04CB", "U+04CD", "U+04D0", "U+04D2", "U+04D4",
       "U+04D6", "U+04D8", "U+04DA", "U+04DC", "U+04DE", "U+04E0", "U+04E2", "U+04E4", "U+04E6",
       "U+04E8", "U+04EA", "U+04EC", "U+04EE", "U+04F0", "U+04F2", "U+04F4", "U+04F6", "U+04F8",
       "U+04FA", "U+04FC", "U+04FE", "U+0500", "U+0502", "U+0504", "U+0506", "U+0508", "U+050A",
       "U+050C", "U+050E", "U+0510", "U+0512", "U+0514", "U+0516", "U+0518", "U+051A", "U+051C",
       "U+051E", "U+0520", "U+0522", "U+0524", "U+0526", "U+0528", "U+052A", "U+052C", "U+052E",
       "U+0531", "U+0532", "U+0533", "U+0534", "U+0535", "U+0536", "U+0537", "U+0538", "U+0539",
       "U+053A", "U+053B", "U+053C", "U+053D", "U+053E", "U+053F", "U+0540", "U+0541", "U+0542",
       "U+0543", "U+0544", "U+0545", "U+0546", "U+0547", "U+0548", "U+0549", "U+054A", "U+054B",
       "U+054C", "U+054D", "U+054E", "U+054F", "U+0550", "U+0551", "U+0552", "U+0553", "U+0554",
       "U+0555", "U+0556", "U+10A0", "U+10A1", "U+10A2", "U+10A3", "U+10A4", "U+10A5", "U+10A6",
       "U+10A7", "U+10A8", "U+10A9", "U+10AA", "U+10AB", "U+10AC", "U+10AD", "U+10AE", "U+10AF",
       "U+10B0", "U+10B1", "U+10B2", "U+10B3", "U+10B4", "U+10B5", "U+10B6", "U+10B7", "U+10B8",
       "U+10B9", "U+10BA", "U+10BB", "U+10BC", "U+10BD", "U+10BE", "U+10BF", "U+10C0", "U+10C1",
       "U+10C2", "U+10C3", "U+10C4", "U+10C5", "U+10C7", "U+10CD", "U+13A0", "U+13A1", "U+13A2",
       "U+13A3", "U+13A4", "U+13A5", "U+13A6", "U+13A7", "U+13A8", "U+13A9", "U+13AA", "U+13AB",
       "U+13AC", "U+13AD", "U+13AE", "U+13AF", "U+13B0", "U+13B1", "U+13B2", "U+13B3", "U+13B4",
       "U+13B5", "U+13B6", "U+13B7", "U+13B8", "U+13B9", "U+13BA", "U+13BB", "U+13BC", "U+13BD",
       "U+13BE", "U+13BF", "U+13C0", "U+13C1", "U+13C2", "U+13C3", "U+13C4", "U+13C5", "U+13C6",
       "U+13C7", "U+13C8", "U+13C9", "U+13CA", "U+13CB", "U+13CC", "U+13CD", "U+13CE", "U+13CF",
       "U+13D0", "U+13D1", "U+13D2", "U+13D3", "U+13D4", "U+13D5", "U+13D6", "U+13D7", "U+13D8",
       "U+13D9", "U+13DA", "U+13DB", "U+13DC", "U+13DD", "U+13DE", "U+13DF", "U+13E0", "U+13E1",
       "U+13E2", "U+13E3", "U+13E4", "U+13E5", "U+13E6", "U+13E7", "U+13E8", "U+13E9", "U+13EA",
       "U+13EB", "U+13EC", "U+13ED", "U+13EE", "U+13EF", "U+13F0", "U+13F1", "U+13F2", "U+13F3",
       "U+13F4", "U+13F5", "U+1C90", "U+1C91", "U+1C92", "U+1C93", "U+1C94", "U+1C95", "U+1C96",
       "U+1C97", "U+1C98", "U+1C99", "U+1C9A", "U+1C9B", "U+1C9C", "U+1C9D", "U+1C9E", "U+1C9F",
       "U+1CA0", "U+1CA1", "U+1CA2", "U+1CA3", "U+1CA4", "U+1CA5", "U+1CA6", "U+1CA7", "U+1CA8",
       "U+1CA9", "U+1CAA", "U+1CAB", "U+1CAC", "U+1CAD", "U+1CAE", "U+1CAF", "U+1CB0", "U+1CB1",
       "U+1CB2", "U+1CB3", "U+1CB4", "U+1CB5", "U+1CB6", "U+1CB7", "U+1CB8", "U+1CB9", "U+1CBA",
       "U+1CBD", "U+1CBE", "U+1CBF", "U+1E00", "U+1E02", "U+1E04", "U+1E06", "U+1E08", "U+1E0A",
       "U+1E0C", "U+1E0E", "U+1E10", "U+1E12", "U+1E14", "U+1E16", "U+1E18", "U+1E1A", "U+1E1C",
       "U+1E1E", "U+1E20", "U+1E22", "U+1E24", "U+1E26", "U+1E28", "U+1E2A", "U+1E2C", "U+1E2E",
       "U+1E30", "U+1E32", "U+1E34", "U+1E36", "U+1E38", "U+1E3A", "U+1E3C", "U+1E3E", "U+1E40",
       "U+1E42", "U+1E44", "U+1E46", "U+1E48", "U+1E4A", "U+1E4C", "U+1E4E", "U+1E50", "U+1E52",
       "U+1E54", "U+1E56", "U+1E58", "U+1E5A", "U+1E5C", "U+1E5E", "U+1E60", "U+1E62", "U+1E64",
       "U+1E66", "U+1E68", "U+1E6A", "U+1E6C", "U+1E6E", "U+1E70", "U+1E72", "U+1E74", "U+1E76",
       "U+1E78", "U+1E7A", "U+1E7C", "U+1E7E", "U+1E80", "U+1E82", "U+1E84", "U+1E86", "U+1E88",
       "U+1E8A", "U+1E8C", "U+1E8E", "U+1E90", "U+1E92", "U+1E94", "U+1E9E", "U+1EA0", "U+1EA2",
       "U+1EA4", "U+1EA6", "U+1EA8", "U+1EAA", "U+1EAC", "U+1EAE", "U+1EB0", "U+1EB2", "U+1EB4",
       "U+1EB6", "U+1EB8", "U+1EBA", "U+1EBC", "U+1EBE", "U+1EC0", "U+1EC2", "U+1EC4", "U+1EC6",
       "U+1EC8", "U+1ECA", "U+1ECC", "U+1ECE", "U+1ED0", "U+1ED2", "U+1ED4", "U+1ED6", "U+1ED8",
       "U+1EDA", "U+1EDC", "U+1EDE", "U+1EE0", "U+1EE2", "U+1EE4", "U+1EE6", "U+1EE8", "U+1EEA",
       "U+1EEC", "U+1EEE", "U+1EF0", "U+1EF2", "U+1EF4", "U+1EF6", "U+1EF8", "U+1EFA", "U+1EFC",
       "U+1EFE", "U+1F08", "U+1F09", "U+1F0A", "U+1F0B", "U+1F0C", "U+1F0D", "U+1F0E", "U+1F0F",
       "U+1F18", "U+1F19", "U+1F1A", "U+1F1B", "U+1F1C", "U+1F1D", "U+1F28", "U+1F29", "U+1F2A",
       "U+1F2B", "U+1F2C", "U+1F2D", "U+1F2E", "U+1F2F", "U+1F38", "U+1F39", "U+1F3A", "U+1F3B",
       "U+1F3C", "U+1F3D", "U+1F3E", "U+1F3F", "U+1F48", "U+1F49", "U+1F4A", "U+1F4B", "U+1F4C",
       "U+1F4D", "U+1F59", "U+1F5B", "U+1F5D", "U+1F5F", "U+1F68", "U+1F69", "U+1F6A", "U+1F6B",
       "U+1F6C", "U+1F6D", "U+1F6E", "U+1F6F", "U+1F88", "U+1F89", "U+1F8A", "U+1F8B", "U+1F8C",
       "U+1F8D", "U+1F8E", "U+1F8F", "U+1F98", "U+1F99", "U+1F9A", "U+1F9B", "U+1F9C", "U+1F9D",
       "U+1F9E", "U+1F9F", "U+1FA8", "U+1FA9", "U+1FAA", "U+1FAB", "U+1FAC", "U+1FAD", "U+1FAE",
       "U+1FAF", "U+1FB8", "U+1FB9", "U+1FBA", "U+1FBB", "U+1FBC", "U+1FC8", "U+1FC9", "U+1FCA",
       "U+1FCB", "U+1FCC", "U+1FD8", "U+1FD9", "U+1FDA", "U+1FDB", "U+1FE8", "U+1FE9", "U+1FEA",
       "U+1FEB", "U+1FEC", "U+1FF8", "U+1FF9", "U+1FFA", "U+1FFB", "U+1FFC", "U+2126", "U+212A",
       "U+212B", "U+2132", "U+2160", "U+2161", "U+2162", "U+2163", "U+2164", "U+2165", "U+2166",
       "U+2167", "U+2168", "U+2169", "U+216A", "U+216B", "U+216C", "U+216D", "U+216E", "U+216F",
       "U+2183", "U+24B6", "U+24B7", "U+24B8", "U+24B9", "U+24BA", "U+24BB", "U+24BC", "U+24BD",
       "U+24BE", "U+24BF", "U+24C0", "U+24C1", "U+24C2", "U+24C3", "U+24C4", "U+24C5", "U+24C6",
       "U+24C7", "U+24C8", "U+24C9", "U+24CA", "U+24CB", "U+24CC", "U+24CD", "U+24CE", "U+24CF",
       "U+2C00", "U+2C01", "U+2C02", "U+2C03", "U+2C04", "U+2C05", "U+2C06", "U+2C07", "U+2C08",
       "U+2C09", "U+2C0A", "U+2C0B", "U+2C0C", "U+2C0D", "U+2C0E", "U+2C0F", "U+2C10", "U+2C11",
       "U+2C12", "U+2C13", "U+2C14", "U+2C15", "U+2C16", "U+2C17", "U+2C18", "U+2C19", "U+2C1A",
       "U+2C1B", "U+2C1C", "U+2C1D", "U+2C1E", "U+2C1F", "U+2C20", "U+2C21", "U+2C22", "U+2C23",
       "U+2C24", "U+2C25", "U+2C26", "U+2C27", "U+2C28", "U+2C29", "U+2C2A", "U+2C2B", "U+2C2C",
       "U+2C2D", "U+2C2E", "U+2C2F", "U+2C60", "U+2C62", "U+2C63", "U+2C64", "U+2C67", "U+2C69",
       "U+2C6B", "U+2C6D", "U+2C6E", "U+2C6F", "U+2C70", "U+2C72", "U+2C75", "U+2C7E", "U+2C7F",
       "U+2C80", "U+2C82", "U+2C84", "U+2C86", "U+2C88", "U+2C8A", "U+2C8C", "U+2C8E", "U+2C90",
       "U+2C92", "U+2C94", "U+2C96", "U+2C98", "U+2C9A", "U+2C9C", "U+2C9E", "U+2CA0", "U+2CA2",
       "U+2CA4", "U+2CA6", "U+2CA8", "U+2CAA", "U+2CAC", "U+2CAE", "U+2CB0", "U+2CB2", "U+2CB4",
       "U+2CB6", "U+2CB8", "U+2CBA", "U+2CBC", "U+2CBE", "U+2CC0", "U+2CC2", "U+2CC4", "U+2CC6",
       "U+2CC8", "U+2CCA", "U+2CCC", "U+2CCE", "U+2CD0", "U+2CD2", "U+2CD4", "U+2CD6", "U+2CD8",
       "U+2CDA", "U+2CDC", "U+2CDE", "U+2CE0", "U+2CE2", "U+2CEB", "U+2CED", "U+2CF2", "U+A640",
       "U+A642", "U+A644", "U+A646", "U+A648", "U+A64A", "U+A64C", "U+A64E", "U+A650", "U+A652",
       "U+A654", "U+A656", "U+A658", "U+A65A", "U+A65C", "U+A65E", "U+A660", "U+A662", "U+A664",
       "U+A666", "U+A668", "U+A66A", "U+A66C", "U+A680", "U+A682", "U+A684", "U+A686", "U+A688",
       "U+A68A", "U+A68C", "U+A68E", "U+A690", "U+A692", "U+A694", "U+A696", "U+A698", "U+A69A",
       "U+A722", "U+A724", "U+A726", "U+A728", "U+A72A", "U+A72C", "U+A72E", "U+A732", "U+A734",
       "U+A736", "U+A738", "U+A73A", "U+A73C", "U+A73E", "U+A740", "U+A742", "U+A744", "U+A746",
       "U+A748", "U+A74A", "U+A74C", "U+A74E", "U+A750", "U+A752", "U+A754", "U+A756", "U+A758",
       "U+A75A", "U+A75C", "U+A75E", "U+A760", "U+A762", "U+A764", "U+A766", "U+A768", "U+A76A",
       "U+A76C", "U+A76E", "U+A779", "U+A77B", "U+A77D", "U+A77E", "U+A780", "U+A782", "U+A784",
       "U+A786", "U+A78B", "U+A78D", "U+A790", "U+A792", "U+A796", "U+A798", "U+A79A", "U+A79C",
       "U+A79E", "U+A7A0", "U+A7A2", "U+A7A4", "U+A7A6", "U+A7A8", "U+A7AA", "U+A7AB", "U+A7AC",
       "U+A7AD", "U+A7AE", "U+A7B0", "U+A7B1", "U+A7B2", "U+A7B3", "U+A7B4", "U+A7B6", "U+A7B8",
       "U+A7BA", "U+A7BC", "U+A7BE", "U+A7C0", "U+A7C2", "U+A7C4", "U+A7C5", "U+A7C6", "U+A7C7",
       "U+A7C9", "U+A7D0", "U+A7D6", "U+A7D8", "U+A7F5", "U+FF21", "U+FF22", "U+FF23", "U+FF24",
       "U+FF25", "U+FF26", "U+FF27", "U+FF28", "U+FF29", "U+FF2A", "U+FF2B", "U+FF2C", "U+FF2D",
       "U+FF2E", "U+FF2F", "U+FF30", "U+FF31", "U+FF32", "U+FF33", "U+FF34", "U+FF35", "U+FF36",
       "U+FF37", "U+FF38", "U+FF39", "U+FF3A", "U+10400", "U+10401", "U+10402", "U+10403", "U+10404",
       "U+10405", "U+10406", "U+10407", "U+10408", "U+10409", "U+1040A", "U+1040B", "U+1040C", "U+1040D",
       "U+1040E", "U+1040F", "U+10410", "U+10411", "U+10412", "U+10413", "U+10414", "U+10415", "U+10416",
       "U+10417", "U+10418", "U+10419", "U+1041A", "U+1041B", "U+1041C", "U+1041D", "U+1041E", "U+1041F",
       "U+10420", "U+10421", "U+10422", "U+10423", "U+10424", "U+10425", "U+10426", "U+10427", "U+104B0",
       "U+104B1", "U+104B2", "U+104B3", "U+104B4", "U+104B5", "U+104B6", "U+104B7", "U+104B8", "U+104B9",
       "U+104BA", "U+104BB", "U+104BC", "U+104BD", "U+104BE", "U+104BF", "U+104C0", "U+104C1", "U+104C2",
       "U+104C3", "U+104C4", "U+104C5", "U+104C6", "U+104C7", "U+104C8", "U+104C9", "U+104CA", "U+104CB",
       "U+104CC", "U+104CD", "U+104CE", "U+104CF", "U+104D0", "U+104D1", "U+104D2", "U+104D3", "U+10570",
       "U+10571", "U+10572", "U+10573", "U+10574", "U+10575", "U+10576", "U+10577", "U+10578", "U+10579",
       "U+1057A", "U+1057C", "U+1057D", "U+1057E", "U+1057F", "U+10580", "U+10581", "U+10582", "U+10583",
       "U+10584", "U+10585", "U+10586", "U+10587", "U+10588", "U+10589", "U+1058A", "U+1058C", "U+1058D",
       "U+1058E", "U+1058F", "U+10590", "U+10591", "U+10592", "U+10594", "U+10595", "U+10C80", "U+10C81",
       "U+10C82", "U+10C83", "U+10C84", "U+10C85", "U+10C86", "U+10C87", "U+10C88", "U+10C89", "U+10C8A",
       "U+10C8B", "U+10C8C", "U+10C8D", "U+10C8E", "U+10C8F", "U+10C90", "U+10C91", "U+10C92", "U+10C93",
       "U+10C94", "U+10C95", "U+10C96", "U+10C97", "U+10C98", "U+10C99", "U+10C9A", "U+10C9B", "U+10C9C",
       "U+10C9D", "U+10C9E", "U+10C9F", "U+10CA0", "U+10CA1", "U+10CA2", "U+10CA3", "U+10CA4", "U+10CA5",
       "U+10CA6", "U+10CA7", "U+10CA8", "U+10CA9", "U+10CAA", "U+10CAB", "U+10CAC", "U+10CAD", "U+10CAE",
       "U+10CAF", "U+10CB0", "U+10CB1", "U+10CB2", "U+118A0", "U+118A1", "U+118A2", "U+118A3", "U+118A4",
       "U+118A5", "U+118A6", "U+118A7", "U+118A8", "U+118A9", "U+118AA", "U+118AB", "U+118AC", "U+118AD",
       "U+118AE", "U+118AF", "U+118B0", "U+118B1", "U+118B2", "U+118B3", "U+118B4", "U+118B5", "U+118B6",
       "U+118B7", "U+118B8", "U+118B9", "U+118BA", "U+118BB", "U+118BC", "U+118BD", "U+118BE", "U+118BF",
       "U+16E40", "U+16E41", "U+16E42", "U+16E43", "U+16E44", "U+16E45", "U+16E46", "U+16E47", "U+16E48",
       "U+16E49", "U+16E4A", "U+16E4B", "U+16E4C", "U+16E4D", "U+16E4E", "U+16E4F", "U+16E50", "U+16E51",
       "U+16E52", "U+16E53", "U+16E54", "U+16E55", "U+16E56", "U+16E57", "U+16E58", "U+16E59", "U+16E5A",
       "U+16E5B", "U+16E5C", "U+16E5D", "U+16E5E", "U+16E5F", "U+1E900", "U+1E901", "U+1E902", "U+1E903",
       "U+1E904", "U+1E905", "U+1E906", "U+1E907", "U+1E908", "U+1E909", "U+1E90A", "U+1E90B", "U+1E90C",
       "U+1E90D", "U+1E90E", "U+1E90F", "U+1E910", "U+1E911", "U+1E912", "U+1E913", "U+1E914", "U+1E915",
       "U+1E916", "U+1E917", "U+1E918", "U+1E919", "U+1E91A", "U+1E91B", "U+1E91C", "U+1E91D", "U+1E91E",
       "U+1E91F", "U+1E920", "U+1E921" >>
UnicodeLower ==
    << "U+00E0", "U+00E1", "U+00E2", "U+00E3", "U+00E4", "U+00E5", "U+00E6", "U+00E7", "U+00E8",
       "U+00E9", "U+00EA", "U+00EB", "U+00EC", "U+00ED", "U+00EE", "U+00EF", "U+00F0", "U+00F1",
       "U+00F2", "U+00F3", "U+00F4", "U+00F5", "U+00F6", "U+00F8", "U+00F9", "U+00FA", "U+00FB",
       "U+00FC", "U+00FD", "U+00FE", "U+0101", "U+0103", "U+0105", "U+0107", "U+0109", "U+010B",
       "U+010D", "U+010F", "U+0111", "U+0113", "U+0115", "U+0117", "U+0119", "U+011B", "U+011D",
       "U+011F", "U+0121", "U+0123", "U+0125", "U+0127", "U+0129", "U+012B", "U+012D", "U+012F",
       "i", "U+0133", "U+0135", "U+0137", "U+013A", "U+013C", "U+013E", "U+0140", "U+0142",
       "U+0144", "U+0146", "U+0148", "U+014B", "U+014D", "U+014F", "U+0151", "U+0153", "U+0155",
       "U+0157", "U+0159", "U+015B", "U+015D", "U+015F", "U+0161", "U+0163", "U+0165", "U+0167",
       "U+0169", "U+016B", "U+016D", "U+016F", "U+0171", "U+0173", "U+0175", "U+0177", "U+00FF",
       "U+017A", "U+017C", "U+017E", "U+0253", "U+0183", "U+0185", "U+0254", "U+0188", "U+0256",
       "U+0257", "U+018C", "U+01DD", "U+0259", "U+025B", "U+0192", "U+0260", "U+0263", "U+0269",
       "U+0268", "U+0199", "U+026F", "U+0272", "U+0275", "U+01A1", "U+01A3", "U+01A5", "U+0280",
       "U+01A8", "U+0283", "U+01AD", "U+0288", "U+01B0", "U+028A", "U+028B", "U+01B4", "U+01B6",
       "U+0292", "U+01B9", "U+01BD", "U+01C6", "U+01C6", "U+01C9", "U+01C9", "U+01CC", "U+01CC",
       "U+01CE", "U+01D0", "U+01D2", "U+01D4", "U+01D6", "U+01D8", "U+01DA", "U+01DC", "U+01DF",
       "U+01E1", "U+01E3", "U+01E5", "U+01E7", "U+01E9", "U+01EB", "U+01ED", "U+01EF", "U+01F3",
       "U+01F3", "U+01F5", "U+0195", "U+01BF", "U+01F9", "U+01FB", "U+01FD", "U+01FF", "U+0201",
       "U+0203", "U+0205", "U+0207", "U+0209", "U+020B", "U+020D", "U+020F", "U+0211", "U+0213",
       "U+0215", "U+0217", "U+0219", "U+021B", "U+021D", "U+021F", "U+019E", "U+0223", "U+0225",
       "U+0227", "U+0229", "U+022B", "U+022D", "U+022F", "U+0231", "U+0233", "U+2C65", "U+023C",
       "U+019A", "U+2C66", "U+0242", "U+0180", "U+0289", "U+028C", "U+0247", "U+0249", "U+024B",
       "U+024D", "U+024F", "U+0371", "U+0373", "U+0377", "U+03F3", "U+03AC", "U+03AD", "U+03AE",
       "U+03AF", "U+03CC", "U+03CD", "U+03CE", "U+03B1", "U+03B2", "U+03B3", "U+03B4", "U+03B5",
       "U+03B6", "U+03B7", "U+03B8", "U+03B9", "U+03BA", "U+03BB", "U+03BC", "U+03BD", "U+03BE",
       "U+03BF", "U+03C0", "U+03C1", "U+03C3", "U+03C4", "U+03C5", "U+03C6", "U+03C7", "U+03C8",
       "U+03C9", "U+03CA", "U+03CB", "U+03D7", "U+03D9", "U+03DB", "U+03DD", "U+03DF", "U+03E1",
       "U+03E3", "U+03E5", "U+03E7", "U+03E9", "U+03EB", "U+03ED", "U+03EF", "U+03B8", "U+03F8",
       "U+03F2", "U+03FB", "U+037B", "U+037C", "U+037D", "U+0450", "U+0451", "U+0452", "U+0453",
       "U+0454", "U+0455", "U+0456", "U+0457", "U+0458", "U+0459", "U+045A", "U+045B", "U+045C",
       "U+045D", "U+045E", "U+045F", "U+0430", "U+0431", "U+0432", "U+0433", "U+0434", "U+0435",
       "U+0436", "U+0437", "U+0438", "U+0439", "U+043A", "U+043B", "U+043C", "U+043D", "U+043E",
       "U+043F", "U+0440", "U+0441", "U+0442", "U+0443", "U+0444", "U+0445", "U+0446", "U+0447",
       "U+0448", "U+0449", "U+044A", "U+044B", "U+044C", "U+044D", "U+044E", "U+044F", "U+0461",
       "U+0463", "U+0465", "U+0467", "U+0469", "U+046B", "U+046D", "U+046F", "U+0471", "U+0473",
       "U+0475", "U+0477", "U+0479", "U+047B", "U+047D", "U+047F", "U+0481", "U+048B", "U+048D",
       "U+048F", "U+0491", "U+0493", "U+0495", "U+0497", "U+0499", "U+049B", "U+049D", "U+049F",
       "U+04A1", "U+04A3", "U+04A5", "U+04A7", "U+04A9", "U+04AB", "U+04AD", "U+04AF", "U+04B1",
       "U+04B3", "U+04B5", "U+04B7", "U+04B9", "U+04BB", "U+04BD", "U+04BF", "U+04CF", "U+04C2",
       "U+04C4", "U+04C6", "U+04C8", "U+04CA", "U+04CC", "U+04CE", "U+04D1", "U+04D3", "U+04D5",
       "U+04D7", "U+04D9", "U+04DB", "U+04DD", "U+04DF", "U+04E1", "U+04E3", "U+04E5", "U+04E7",
       "U+04E9", "U+04EB", "U+04ED", "U+04EF", "U+04F1", "U+04F3", "U+04F5", "U+04F7", "U+04F9",
       "U+04FB", "U+04FD", "U+04FF", "U+0501", "U+0503", "U+0505", "U+0507", "U+0509", "U+050B",
       "U+050D", "U+050F", "U+0511", "U+0513", "U+0515", "U+0517", "U+0519", "U+051B", "U+051D",
       "U+051F", "U+0521", "U+0523", "U+0525", "U+0527", "U+0529", "U+052B", "U+052D", "U+052F",
       "U+0561", "U+0562", "U+0563", "U+0564", "U+0565", "U+0566", "U+0567", "U+0568", "U+0569",
       "U+056A", "U+056B", "U+056C", "U+056D", "U+056E", "U+056F", "U+0570", "U+0571", "U+0572",
       "U+0573", "U+0574", "U+0575", "U+0576", "U+0577", "U+0578", "U+0579", "U+057A", "U+057B",
       "U+057C", "U+057D", "U+057E", "U+057F", "U+0580", "U+0581", "U+0582", "U+0583", "U+0584",
       "U+0585", "U+0586", "U+2D00", "U+2D01", "U+2D02", "U+2D03", "U+2D04", "U+2D05", "U+2D06",
       "U+2D07", "U+2D08", "U+2D09", "U+2D0A", "U+2D0B", "U+2D0C", "U+2D0D", "U+2D0E", "U+2D0F",
       "U+2D10", "U+2D11", "U+2D12", "U+2D13", "U+2D14", "U+2D15", "U+2D16", "U+2D17", "U+2D18",
       "U+2D19", "U+2D1A", "U+2D1B", "U+2D1C", "U+2D1D", "U+2D1E", "U+2D1F", "U+2D20", "U+2D21",
       "U+2D22", "U+2D23", "U+2D24", "U+2D25", "U+2D27", "U+2D2D", "U+AB70", "U+AB71", "U+AB72",
       "U+AB73", "U+AB74", "U+AB75", "U+AB76", "U+AB77", "U+AB78", "U+AB79", "U+AB7A", "U+AB7B",
       "U+AB7C", "U+AB7D", "U+AB7E", "U+AB7F", "U+AB80", "U+AB81", "U+AB82", "U+AB83", "U+AB84",
       "U+AB85", "U+AB86", "U+AB87", "U+AB88", "U+AB89", "U+AB8A", "U+AB8B", "U+AB8C", "U+AB8D",
       "U+AB8E", "U+AB8F", "U+AB90", "U+AB91", "U+AB92", "U+AB93", "U+AB94", "U+AB95", "U+AB96",
       "U+AB97", "U+AB98", "U+AB99", "U+AB9A", "U+AB9B", "U+AB9C", "U+AB9D", "U+AB9E", "U+AB9F",
       "U+ABA0", "U+ABA1", "U+ABA2", "U+ABA3", "U+ABA4", "U+ABA5", "U+ABA6", "U+ABA7", "U+ABA8",
       "U+ABA9", "U+ABAA", "U+ABAB", "U+ABAC", "U+ABAD", "U+ABAE", "U+ABAF", "U+ABB0", "U+ABB1",
       "U+ABB2", "U+ABB3", "U+ABB4", "U+ABB5", "U+ABB6", "U+ABB7", "U+ABB8", "U+ABB9", "U+ABBA",
       "U+ABBB", "U+ABBC", "U+ABBD", "U+ABBE", "U+ABBF", "U+13F8", "U+13F9", "U+13FA", "U+13FB",
       "U+13FC", "U+13FD", "U+10D0", "U+10D1", "U+10D2", "U+10D3", "U+10D4", "U+10D5", "U+10D6",
       "U+10D7", "U+10D8", "U+10D9", "U+10DA", "U+10DB", "U+10DC", "U+10DD", "U+10DE", "U+10DF",
       "U+10E0", "U+10E1", "U+10E2", "U+10E3", "U+10E4", "U+10E5", "U+10E6", "U+10E7", "U+10E8",
       "U+10E9", "U+10EA", "U+10EB", "U+10EC", "U+10ED", "U+10EE", "U+10EF", "U+10F0", "U+10F1",
       "U+10F2", "U+10F3", "U+10F4", "U+10F5", "U+10F6", "U+10F7", "U+10F8", "U+10F9", "U+10FA",
       "U+10FD", "U+10FE", "U+10FF", "U+1E01", "U+1E03", "U+1E05", "U+1E07", "U+1E09", "U+1E0B",
       "U+1E0D", "U+1E0F", "U+1E11", "U+1E13", "U+1E15", "U+1E17", "U+1E19", "U+1E1B", "U+1E1D",
       "U+1E1F", "U+1E21", "U+1E23", "U+1E25", "U+1E27", "U+1E29", "U+1E2B", "U+1E2D", "U+1E2F",
       "U+1E31", "U+1E33", "U+1E35", "U+1E37", "U+1E39", "U+1E3B", "U+1E3D", "U+1E3F", "U+1E41",
       "U+1E43", "U+1E45", "U+1E47", "U+1E49", "U+1E4B", "U+1E4D", "U+1E4F", "U+1E51", "U+1E53",
       "U+1E55", "U+1E57", "U+1E59", "U+1E5B", "U+1E5D", "U+1E5F", "U+1E61", "U+1E63", "U+1E65",
       "U+1E67", "U+1E69", "U+1E6B", "U+1E6D", "U+1E6F", "U+1E71", "U+1E73", "U+1E75", "U+1E77",
       "U+1E79", "U+1E7B", "U+1E7D", "U+1E7F", "U+1E81", "U+1E83", "U+1E85", "U+1E87", "U+1E89",
       "U+1E8B", "U+1E8D", "U+1E8F", "U+1E91", "U+1E93", "U+1E95", "U+00DF", "U+1EA1", "U+1EA3",
       "U+1EA5", "U+1EA7", "U+1EA9", "U+1EAB", "U+1EAD", "U+1EAF", "U+1EB1", "U+1EB3", "U+1EB5",
       "U+1EB7", "U+1EB9", "U+1EBB", "U+1EBD", "U+1EBF", "U+1EC1", "U+1EC3", "U+1EC5", "U+1EC7",
       "U+1EC9", "U+1ECB", "U+1ECD", "U+1ECF", "U+1ED1", "U+1ED3", "U+1ED5", "U+1ED7", "U+1ED9",
       "U+1EDB", "U+1EDD", "U+1EDF", "U+1EE1", "U+1EE3", "U+1EE5", "U+1EE7", "U+1EE9", "U+1EEB",
       "U+1EED", "U+1EEF", "U+1EF1", "U+1EF3", "U+1EF5", "U+1EF7", "U+1EF9", "U+1EFB", "U+1EFD",
       "U+1EFF", "U+1F00", "U+1F01", "U+1F02", "U+1F03", "U+1F04", "U+1F05", "U+1F06", "U+1F07",
       "U+1F10", "U+1F11", "U+1F12", "U+1F13", "U+1F14", "U+1F15", "U+1F20", "U+1F21", "U+1F22",
       "U+1F23", "U+1F24", "U+1F25", "U+1F26", "U+1F27", "U+1F30", "U+1F31", "U+1F32", "U+1F33",
       "U+1F34", "U+1F35", "U+1F36", "U+1F37", "U+1F40", "U+1F41", "U+1F42", "U+1F43", "U+1F44",
       "U+1F45", "U+1F51", "U+1F53", "U+1F55", "U+1F57", "U+1F60", "U+1F61", "U+1F62", "U+1F63",
       "U+1F64", "U+1F65", "U+1F66", "U+1F67", "U+1F80", "U+1F81", "U+1F82", "U+1F83", "U+1F84",
       "U+1F85", "U+1F86", "U+1F87", "U+1F90", "U+1F91", "U+1F92", "U+1F93", "U+1F94", "U+1F95",
       "U+1F96", "U+1F97", "U+1FA0", "U+1FA1", "U+1FA2", "U+1FA3", "U+1FA4", "U+1FA5", "U+1FA6",
       "U+1FA7", "U+1FB0", "U+1FB1", "U+1F70", "U+1F71", "U+1FB3", "U+1F72", "U+1F73", "U+1F74",
       "U+1F75", "U+1FC3", "U+1FD0", "U+1FD1", "U+1F76", "U+1F77", "U+1FE0", "U+1FE1", "U+1F7A",
       "U+1F7B", "U+1FE5", "U+1F78", "U+1F79", "U+1F7C", "U+1F7D", "U+1FF3", "U+03C9", "k",
       "U+00E5", "U+214E", "U+2170", "U+2171", "U+2172", "U+2173", "U+2174", "U+2175", "U+2176",
       "U+2177", "U+2178", "U+2179", "U+217A", "U+217B", "U+217C", "U+217D", "U+217E", "U+217F",
       "U+2184", "U+24D0", "U+24D1", "U+24D2", "U+24D3", "U+24D4", "U+24D5", "U+24D6", "U+24D7",
       "U+24D8", "U+24D9", "U+24DA", "U+24DB", "U+24DC", "U+24DD", "U+24DE", "U+24DF", "U+24E0",
       "U+24E1", "U+24E2", "U+24E3", "U+24E4", "U+24E5", "U+24E6", "U+24E7", "U+24E8", "U+24E9",
       "U+2C30", "U+2C31", "U+2C32", "U+2C33", "U+2C34", "U+2C35", "U+2C36", "U+2C37", "U+2C38",
       "U+2C39", "U+2C3A", "U+2C3B", "U+2C3C", "U+2C3D", "U+2C3E", "U+2C3F", "U+2C40", "U+2C41",
       "U+2C42", "U+2C43", "U+2C44", "U+2C45", "U+2C46", "U+2C47", "U+2C48", "U+2C49", "U+2C4A",
       "U+2C4B", "U+2C4C", "U+2C4D", "U+2C4E", "U+2C4F", "U+2C50", "U+2C51", "U+2C52", "U+2C53",
       "U+2C54", "U+2C55", "U+2C56", "U+2C57", "U+2C58", "U+2C59", "U+2C5A", "U+2C5B", "U+2C5C",
       "U+2C5D", "U+2C5E", "U+2C5F", "U+2C61", "U+026B", "U+1D7D", "U+027D", "U+2C68", "U+2C6A",
       "U+2C6C", "U+0251", "U+0271", "U+0250", "U+0252", "U+2C73", "U+2C76", "U+023F", "U+0240",
       "U+2C81", "U+2C83", "U+2C85", "U+2C87", "U+2C89", "U+2C8B", "U+2C8D", "U+2C8F", "U+2C91",
       "U+2C93", "U+2C95", "U+2C97", "U+2C99", "U+2C9B", "U+2C9D", "U+2C9F", "U+2CA1", "U+2CA3",
       "U+2CA5", "U+2CA7", "U+2CA9", "U+2CAB", "U+2CAD", "U+2CAF", "U+2CB1", "U+2CB3", "U+2CB5",
       "U+2CB7", "U+2CB9", "U+2CBB", "U+2CBD", "U+2CBF", "U+2CC1", "U+2CC3", "U+2CC5", "U+2CC7",
       "U+2CC9", "U+2CCB", "U+2CCD", "U+2CCF", "U+2CD1", "U+2CD3", "U+2CD5", "U+2CD7", "U+2CD9",
       "U+2CDB", "U+2CDD", "U+2CDF", "U+2CE1", "U+2CE3", "U+2CEC", "U+2CEE", "U+2CF3", "U+A641",
       "U+A643", "U+A645", "U+A647", "U+A649", "U+A64B", "U+A64D", "U+A64F", "U+A651", "U+A653",
       "U+A655", "U+A657", "U+A659", "U+A65B", "U+A65D", "U+A65F", "U+A661", "U+A663", "U+A665",
       "U+A667", "U+A669", "U+A66B", "U+A66D", "U+A681", "U+A683", "U+A685", "U+A687", "U+A689",
       "U+A68B", "U+A68D", "U+A68F", "U+A691", "U+A693", "U+A695", "U+A697", "U+A699", "U+A69B",
       "U+A723", "U+A725", "U+A727", "U+A729", "U+A72B", "U+A72D", "U+A72F", "U+A733", "U+A735",
       "U+A737", "U+A739", "U+A73B", "U+A73D", "U+A73F", "U+A741", "U+A743", "U+A745", "U+A747",
       "U+A749", "U+A74B", "U+A74D", "U+A74F", "U+A751", "U+A753", "U+A755", "U+A757", "U+A759",
       "U+A75B", "U+A75D", "U+A75F", "U+A761", "U+A763", "U+A765", "U+A767", "U+A769", "U+A76B",
       "U+A76D", "U+A76F", "U+A77A", "U+A77C", "U+1D79", "U+A77F", "U+A781", "U+A783", "U+A785",
       "U+A787", "U+A78C", "U+0265", "U+A791", "U+A793", "U+A797", "U+A799", "U+A79B", "U+A79D",
       "U+A79F", "U+A7A1", "U+A7A3", "U+A7A5", "U+A7A7", "U+A7A9", "U+0266", "U+025C", "U+0261",
       "U+026C", "U+026A", "U+029E", "U+0287", "U+029D", "U+AB53", "U+A7B5", "U+A7B7", "U+A7B9",
       "U+A7BB", "U+A7BD", "U+A7BF", "U+A7C1", "U+A7C3", "U+A794", "U+0282", "U+1D8E", "U+A7C8",
       "U+A7CA", "U+A7D1", "U+A7D7", "U+A7D9", "U+A7F6", "U+FF41", "U+FF42", "U+FF43", "U+FF44",
       "U+FF45", "U+FF46", "U+FF47", "U+FF48", "U+FF49", "U+FF4A", "U+FF4B", "U+FF4C", "U+FF4D",
       "U+FF4E", "U+FF4F", "U+FF50", "U+FF51", "U+FF52", "U+FF53", "U+FF54", "U+FF55", "U+FF56",
       "U+FF57", "U+FF58", "U+FF59", "U+FF5A", "U+10428", "U+10429", "U+1042A", "U+1042B", "U+1042C",
       "U+1042D", "U+1042E", "U+1042F", "U+10430", "U+10431", "U+10432", "U+10433", "U+10434", "U+10435",
       "U+10436", "U+10437", "U+10438", "U+10439", "U+1043A", "U+1043B", "U+1043C", "U+1043D", "U+1043E",
       "U+1043F", "U+10440", "U+10441", "U+10442", "U+10443", "U+10444", "U+10445", "U+10446", "U+10447",
       "U+10448", "U+10449", "U+1044A", "U+1044B", "U+1044C", "U+1044D", "U+1044E", "U+1044F", "U+104D8",
       "U+104D9", "U+104DA", "U+104DB", "U+104DC", "U+104DD", "U+104DE", "U+104DF", "U+104E0", "U+104E1",
       "U+104E2", "U+104E3", "U+104E4", "U+104E5", "U+104E6", "U+104E7", "U+104E8", "U+104E9", "U+104EA",
       "U+104EB", "U+104EC", "U+104ED", "U+104EE", "U+104EF", "U+104F0", "U+104F1", "U+104F2", "U+104F3",
       "U+104F4", "U+104F5", "U+104F6", "U+104F7", "U+104F8", "U+104F9", "U+104FA", "U+104FB", "U+10597",
       "U+10598", "U+10599", "U+1059A", "U+1059B", "U+1059C", "U+1059D", "U+1059E", "U+1059F", "U+105A0",
       "U+105A1", "U+105A3", "U+105A4", "U+105A5", "U+105A6", "U+105A7", "U+105A8", "U+105A9", "U+105AA",
       "U+105AB", "U+105AC", "U+105AD", "U+105AE", "U+105AF", "U+105B0", "U+105B1", "U+105B3", "U+105B4",
       "U+105B5", "U+105B6", "U+105B7", "U+105B8", "U+105B9", "U+105BB", "U+105BC", "U+10CC0", "U+10CC1",
       "U+10CC2", "U+10CC3", "U+10CC4", "U+10CC5", "U+10CC6", "U+10CC7", "U+10CC8", "U+10CC9", "U+10CCA",
       "U+10CCB", "U+10CCC", "U+10CCD", "U+10CCE", "U+10CCF", "U+10CD0", "U+10CD1", "U+10CD2", "U+10CD3",
       "U+10CD4", "U+10CD5", "U+10CD6", "U+10CD7", "U+10CD8", "U+10CD9", "U+10CDA", "U+10CDB", "U+10CDC",
       "U+10CDD", "U+10CDE", "U+10CDF", "U+10CE0", "U+10CE1", "U+10CE2", "U+10CE3", "U+10CE4", "U+10CE5",
       "U+10CE6", "U+10CE7", "U+10CE8", "U+10CE9", "U+10CEA", "U+10CEB", "U+10CEC", "U+10CED", "U+10CEE",
       "U+10CEF", "U+10CF0", "U+10CF1", "U+10CF2", "U+118C0", "U+118C1", "U+118C2", "U+118C3", "U+118C4",
       "U+118C5", "U+118C6", "U+118C7", "U+118C8", "U+118C9", "U+118CA", "U+118CB", "U+118CC", "U+118CD",
       "U+118CE", "U+118CF", "U+118D0", "U+118D1", "U+118D2", "U+118D3", "U+118D4", "U+118D5", "U+118D6",
       "U+118D7", "U+118D8", "U+118D9", "U+118DA", "U+118DB", "U+118DC", "U+118DD", "U+118DE", "U+118DF",
       "U+16E60", "U+16E61", "U+16E62", "U+16E63", "U+16E64", "U+16E65", "U+16E66", "U+16E67", "U+16E68",
       "U+16E69", "U+16E6A", "U+16E6B", "U+16E6C", "U+16E6D", "U+16E6E", "U+16E6F", "U+16E70", "U+16E71",
       "U+16E72", "U+16E73", "U+16E74", "U+16E75", "U+16E76", "U+16E77", "U+16E78", "U+16E79", "U+16E7A",
       "U+16E7B", "U+16E7C", "U+16E7D", "U+16E7E", "U+16E7F", "U+1E922", "U+1E923", "U+1E924", "U+1E925",
       "U+1E926", "U+1E927", "U+1E928", "U+1E929", "U+1E92A", "U+1E92B", "U+1E92C", "U+1E92D", "U+1E92E",
       "U+1E92F", "U+1E930", "U+1E931", "U+1E932", "U+1E933", "U+1E934", "U+1E935", "U+1E936", "U+1E937",
       "U+1E938", "U+1E939", "U+1E93A", "U+1E93B", "U+1E93C", "U+1E93D", "U+1E93E", "U+1E93F", "U+1E940",
       "U+1E941", "U+1E942", "U+1E943" >>

\* unicode.ToLower
ToLowerChar(c) ==
    IF \E i \in 1..Len(UpperChars) : UpperChars[i] = c
    THEN LowerChars[CHOOSE i \in 1..Len(UpperChars) : UpperChars[i] = c]
    ELSE IF c \in AsciiChars THEN c
    ELSE IF \E i \in 1..Len(UnicodeUpper) : UnicodeUpper[i] = c
         THEN UnicodeLower[CHOOSE i \in 1..Len(UnicodeUpper) : UnicodeUpper[i] = c]
    ELSE c

\* strings.ToLower
ToLower(s) == [i \in 1..Len(s) |-> ToLowerChar(s[i])]

\* The white space strings.TrimSpace strips: asciiSpace ('\t', '\n', '\v',
\* '\f', '\r', ' ') and, outside ASCII, unicode.IsSpace.
IsSpace(c) ==
    c \in {"\t", "\n", "U+000B", "\f", "\r", " ",
           "U+0085", "U+00A0", "U+1680", "U+2000", "U+2001", "U+2002", "U+2003",
           "U+2004", "U+2005", "U+2006", "U+2007", "U+2008", "U+2009", "U+200A",
           "U+2028", "U+2029", "U+202F", "U+205F", "U+3000"}

\* strings.TrimSpace
TrimSpace(s) ==
    IF \A i \in 1..Len(s) : IsSpace(s[i]) THEN <<>>
    ELSE LET first == CHOOSE i \in 1..Len(s) :
                        /\ ~IsSpace(s[i])
                        /\ \A j \in 1..(i - 1) : IsSpace(s[j])
             last  == CHOOSE i \in 1..Len(s) :
                        /\ ~IsSpace(s[i])
                        /\ \A j \in (i + 1)..Len(s) : IsSpace(s[j])
         IN  SubSeq(s, first, last)

\* strings.Split(s, sep) for a one-character separator
RECURSIVE Split(_, _)
Split(s, sep) ==
    IF \A i \in 1..Len(s) : s[i] # sep THEN <<s>>
    ELSE LET i == CHOOSE i \in 1..Len(s) :
                    /\ s[i] = sep
                    /\ \A j \in 1..(i - 1) : s[j] # sep
         IN  <<SubSeq(s, 1, i - 1)>> \o Split(SubSeq(s, i + 1, Len(s)), sep)

\* ------------------------------------------------- uint64 and int64 values
\* A 64-bit value does not fit TLC's integers: a natural number is the
\* sequence of its digits in base Radix, least significant first and with no
\* leading zero (zero is the empty sequence). The arithmetic is written as
\* functions, which TLC applies to values.
Radix == 100 * 100
BigNat == Seq(Nat)

Big[n \in Nat] == IF n = 0 THEN <<>> ELSE <<n % Radix>> \o Big[n \div Radix]

Limb(a) == IF a = <<>> THEN 0 ELSE a[1]
Rest(a) == IF a = <<>> THEN <<>> ELSE Tail(a)
Cons[d \in Nat, a \in BigNat] == IF d = 0 /\ a = <<>> THEN <<>> ELSE <<d>> \o a

AddCarry[a \in BigNat, b \in BigNat, c \in Nat] ==
    IF a = <<>> /\ b = <<>> THEN Big[c]
    ELSE Cons[(Limb(a) + Limb(b) + c) % Radix,
              AddCarry[Rest(a), Rest(b), (Limb(a) + Limb(b) + c) \div Radix]]
BigAdd(a, b) == AddCarry[a, b, 0]

\* a < b
BigLess[a \in BigNat, b \in BigNat] ==
    IF Len(a) # Len(b) THEN Len(a) < Len(b)
    ELSE IF a = <<>> THEN FALSE
    ELSE IF a[Len(a)] # b[Len(b)] THEN a[Len(a)] < b[Len(b)]
    ELSE BigLess[SubSeq(a, 1, Len(a) - 1), SubSeq(b, 1, Len(b) - 1)]

\* a - b - c, for a >= b + c
SubBorrow[a \in BigNat, b \in BigNat, c \in Nat] ==
    IF a = <<>> THEN <<>>
    ELSE Cons[(Limb(a) - Limb(b) - c + Radix) % Radix,
              SubBorrow[Rest(a), Rest(b), IF Limb(a) - Limb(b) - c < 0 THEN 1 ELSE 0]]
BigSub(a, b) == SubBorrow[a, b, 0]

\* a * k + c, for k and c of at most 17 bits
MulSmall[a \in BigNat, k \in Nat, c \in Nat] ==
    IF a = <<>> THEN Big[c]
    ELSE Cons[(a[1] * k + c) % Radix, MulSmall[Tail(a), k, (a[1] * k + c) \div Radix]]

BigMul[a \in BigNat, b \in BigNat] ==
    IF a = <<>> \/ b = <<>> THEN <<>>
    ELSE AddCarry[MulSmall[a, b[1], 0], Cons[0, BigMul[a, Tail(b)]], 0]

\* a divided by k, for k of at most 17 bits: the quotient and the remainder.
QuoRem == [q : BigNat, r : Nat]
DivStep[limb \in Nat, hi \in QuoRem, k \in Nat] ==
    [q |-> Cons[(hi.r * Radix + limb) \div k, hi.q], r |-> (hi.r * Radix + limb) % k]
DivSmall[a \in BigNat, k \in Nat] ==
    IF a = <<>> THEN [q |-> <<>>, r |-> 0] ELSE DivStep[a[1], DivSmall[Tail(a), k], k]

\* 1 << n
Bit[n \in Nat] == IF n = 0 THEN 1 ELSE 2 * Bit[n - 1]

\* a << k and a >> k
ShiftLeft[a \in BigNat, k \in Nat] ==
    IF k > 16 THEN ShiftLeft[MulSmall[a, Bit[16], 0], k - 16] ELSE MulSmall[a, Bit[k], 0]
ShiftRight[a \in BigNat, k \in Nat] ==
    IF k > 16 THEN ShiftRight[DivSmall[a, Bit[16]].q, k - 16] ELSE DivSmall[a, Bit[k]].q

\* The number of bits of a.
BitLen[a \in BigNat] ==
    IF a = <<>> THEN 0
    ELSE IF Len(a) > 1 THEN 13 + BitLen[ShiftRight[a, 13]]
    ELSE 1 + BitLen[Big[a[1] \div 2]]

\* a divided by b, for b > 0: the pair of the quotient and the remainder, one
\* limb of a at a time. QuoLimb puts the next limb before the quotient q: the largest d
\* in lo..hi with b * d <= r, which leaves r - b * d.
QuoLimb[q \in BigNat, r \in BigNat, b \in BigNat, lo \in Nat, hi \in Nat] ==
    IF lo = hi THEN <<Cons[lo, q], BigSub(r, MulSmall[b, lo, 0])>>
    ELSE IF BigLess[r, MulSmall[b, (lo + hi + 1) \div 2, 0]]
         THEN QuoLimb[q, r, b, lo, (lo + hi + 1) \div 2 - 1]
    ELSE QuoLimb[q, r, b, (lo + hi + 1) \div 2, hi]
BigDivStep[hi \in Seq(BigNat), limb \in Nat, b \in BigNat] ==
    QuoLimb[hi[1], Cons[limb, hi[2]], b, 0, Radix - 1]
BigDiv[a \in BigNat, b \in BigNat] ==
    IF a = <<>> THEN <<(<<>>), (<<>>)>> ELSE BigDivStep[BigDiv[Tail(a), b], a[1], b]

\* ------------------------------------------------------------ time.Duration
\* A time.Duration is an int64 count of nanoseconds: a sign and a magnitude.
Duration(neg, mag) == [neg |-> neg /\ mag # <<>>, mag |-> mag]

DurAdd(a, b) ==
    IF a.neg = b.neg THEN Duration(a.neg, BigAdd(a.mag, b.mag))
    ELSE IF BigLess[a.mag, b.mag] THEN Duration(b.neg, BigSub(b.mag, a.mag))
    ELSE Duration(a.neg, BigSub(a.mag, b.mag))
\* k * a, for a small k
DurMul(k, a) == Duration(a.neg, BigMul[Big[k], a.mag])

Nanosecond == Duration(FALSE, Big[1])
Microsecond == DurMul(1000, Nanosecond)
Millisecond == DurMul(1000, Microsecond)
Second == DurMul(1000, Millisecond)
Minute == DurMul(60, Second)
Hour == DurMul(60, Minute)

\* Time.Add, for a time t in milliseconds: a time in nanoseconds.
Add(t, d) == DurAdd(Duration(FALSE, MulSmall[MulSmall[Big[t], 1000, 0], 1000, 0]), d)

\* ------------------------------------------------------------------ float64
\* A float64 is m * 2^e with m of at most 53 bits. Round53 rounds a natural
\* number, which stands for a little more when sticky, to the nearest float64
\* (ties to even). The exponent is not bounded: where a float64 would be
\* infinite or subnormal (a scale of 309 digits or more) the fraction of a
\* duration is below one nanosecond either way.
Float64 == [m : BigNat, e : Int]
RoundedTo(hi, a, sticky, sh) ==
    [m |-> IF Limb(hi) % 2 = 1
               /\ (sticky \/ ShiftLeft[hi, sh - 1] # a \/ Limb(ShiftRight[hi, 1]) % 2 = 1)
            THEN BigAdd(ShiftRight[hi, 1], Big[1])
            ELSE ShiftRight[hi, 1],
     e |-> sh]
Round53(a, sticky) ==
    IF BitLen[a] <= 53 THEN [m |-> a, e |-> 0]
    ELSE RoundedTo(ShiftRight[a, BitLen[a] - 54], a, sticky, BitLen[a] - 53)
Scaled(x, k) == [m |-> x.m, e |-> x.e + k]

\* x * y
FloatMul(x, y) == Scaled(Round53(BigMul[x.m, y.m], FALSE), x.e + y.e)
\* x / y, for y > 0: the quotient of the mantissas is computed with 54 bits or
\* more and rounded.
FloatDivBy(x, y, sh) ==
    LET d == BigDiv[ShiftLeft[x.m, sh], y.m]
    IN  Scaled(Round53(d[1], d[2] # <<>>), x.e - y.e - sh)
FloatDiv(x, y) == FloatDivBy(x, y, 55 + BitLen[y.m] - BitLen[x.m])
\* uint64(x), for x >= 0
Truncate(x) == IF x.e >= 0 THEN ShiftLeft[x.m, x.e] ELSE ShiftRight[x.m, 0 - x.e]

\* ------------------------------------------------------ time.ParseDuration
\* unitMap: "us" is also spelt with the micro sign (U+00B5) and with the Greek
\* letter mu (U+03BC).
UnitNames ==
    { <<"n","s">>, <<"u","s">>, <<"U+00B5","s">>, <<"U+03BC","s">>,
      <<"m","s">>, <<"s">>, <<"m">>, <<"h">> }
UnitOf(u) ==
    CASE u = <<"n","s">> -> Nanosecond
      [] u \in { <<"u","s">>, <<"U+00B5","s">>, <<"U+03BC","s">> } -> Microsecond
      [] u = <<"m","s">> -> Millisecond
      [] u = <<"s">>     -> Second
      [] u = <<"m">>     -> Minute
      [] u = <<"h">>     -> Hour

\* Length of the longest prefix of s with no digit and no '.' (the unit).
RECURSIVE UnitRun(_)
UnitRun(s) ==
    IF s # <<>> /\ ~IsDigit(s[1]) /\ s[1] # "." THEN 1 + UnitRun(Tail(s)) ELSE 0

\* 1<<63 and 1<<63 / 10 (which is also (1<<63 - 1) / 10)
Bit63 == ShiftLeft[Big[1], 63]
Bit63Div10 == DivSmall[Bit63, 10].q

\* leadingInt: the value x of the leading digits of s and what follows them,
\* or an error when the value passes 1<<63.
RECURSIVE leadingInt(_, _)
leadingInt(s, x) ==
    IF s = <<>> \/ ~IsDigit(s[1]) THEN [x |-> x, rem |-> s, err |-> FALSE]
    ELSE IF BigLess[Bit63Div10, x] \/ BigLess[Bit63, MulSmall[x, 10, DigitVal(s[1])]]
         THEN [x |-> <<>>, rem |-> <<>>, err |-> TRUE]
    ELSE leadingInt(Tail(s), MulSmall[x, 10, DigitVal(s[1])])

\* leadingFraction: the value x of the leading digits of s, the float64
\* scale, multiplied by 10 for each digit taken into x, and what follows the
\* digits. Once x would pass 1<<63 the digits left are skipped.
leadingFraction[s \in Seq(STRING), x \in BigNat, scale \in Float64, overflow \in BOOLEAN] ==
    IF s = <<>> \/ ~IsDigit(s[1]) THEN [x |-> x, scale |-> scale, rem |-> s]
    ELSE IF overflow \/ BigLess[Bit63Div10, x]
                     \/ BigLess[Bit63, MulSmall[x, 10, DigitVal(s[1])]]
         THEN leadingFraction[Tail(s), x, scale, TRUE]
    ELSE leadingFraction[Tail(s), MulSmall[x, 10, DigitVal(s[1])],
                         FloatMul(scale, [m |-> Big[10], e |-> 0]), FALSE]
Fraction(s) ==
    IF s # <<>> /\ s[1] = "."
    THEN leadingFraction[Tail(s), <<>>, [m |-> Big[1], e |-> 0], FALSE]
    ELSE [x |-> <<>>, scale |-> [m |-> Big[1], e |-> 0], rem |-> s]

\* uint64(float64(f) * (float64(unit) / scale))
FractionValue(f, scale, unit) ==
    Truncate(FloatMul(Round53(f, FALSE), FloatDiv(Round53(unit, FALSE), scale)))

DurOK(d) == [d |-> d, err |-> None]
DurErr(e) == [d |-> Duration(FALSE, <<>>), err |-> e]
\* a uint64 sum wraps at 1<<64
Uint64(a) ==
    IF BigLess[a, ShiftLeft[Big[1], 64]] THEN a ELSE BigSub(a, ShiftLeft[Big[1], 64])

\* The loop of ParseDuration: one "number [. fraction] unit" group at a time,
\* d the uint64 sum of the groups before. "v > 1<<63/unit" is tested as
\* v * unit > 1<<63.
RECURSIVE ParseGroups(_, _)
AddGroup(s, d) ==
    IF BigLess[Bit63, d] THEN DurErr("invalid duration") ELSE ParseGroups(s, d)
AddFraction(s, d, v) ==
    IF BigLess[Bit63, v] THEN DurErr("invalid duration")
    ELSE AddGroup(s, Uint64(BigAdd(d, v)))
GroupValue(s, d, v, fr, unit) ==
    IF BigLess[Bit63, BigMul[v, unit]] THEN DurErr("invalid duration")
    ELSE IF fr.x = <<>> THEN AddGroup(s, Uint64(BigAdd(d, BigMul[v, unit])))
    ELSE AddFraction(s, d, BigAdd(BigMul[v, unit], FractionValue(fr.x, fr.scale, unit)))
ParseUnit(d, v, fr, n) ==
    IF n = 0 THEN DurErr("missing unit in duration")
    ELSE IF SubSeq(fr.rem, 1, n) \notin UnitNames THEN DurErr("unknown unit in duration")
    ELSE GroupValue(SubSeq(fr.rem, n + 1, Len(fr.rem)), d, v, fr,
                    UnitOf(SubSeq(fr.rem, 1, n)).mag)
\* pre, post: digits were consumed before, after the '.'
ParseNumber(d, s, int, fr) ==
    IF /\ Len(int.rem) = Len(s)
       /\ ~(int.rem # <<>> /\ int.rem[1] = "." /\ Len(fr.rem) # Len(int.rem) - 1)
    THEN DurErr("invalid duration")
    ELSE ParseUnit(d, int.x, fr, UnitRun(fr.rem))
ParseGroup(d, s, int) ==
    IF int.err THEN DurErr("invalid duration") ELSE ParseNumber(d, s, int, Fraction(int.rem))
ParseGroups(s, d) ==
    IF s = <<>> THEN [d |-> d, err |-> None]
    ELSE IF ~(s[1] = "." \/ IsDigit(s[1])) THEN DurErr("invalid duration")
    ELSE ParseGroup(d, s, leadingInt(s, <<>>))

\* -Duration(d) when neg, else Duration(d) unless d > 1<<63 - 1
Negate(r, neg) ==
    IF r.err # None THEN r
    ELSE IF neg THEN DurOK(Duration(TRUE, r.d))
    ELSE IF BigLess[BigSub(Bit63, Big[1]), r.d] THEN DurErr("invalid duration")
    ELSE DurOK(Duration(FALSE, r.d))
ParseSigned(body, neg) ==
    IF body = <<"0">> THEN DurOK(Duration(FALSE, <<>>))
    ELSE IF body = <<>> THEN DurErr("invalid duration")
    ELSE Negate(ParseGroups(body, <<>>), neg)

\* time.ParseDuration: [-+]?([0-9]*(\.[0-9]*)?[a-z]+)+
ParseDuration(s) ==
    IF s # <<>> /\ s[1] \in {"-", "+"} THEN ParseSigned(Tail(s), s[1] = "-")
    ELSE ParseSigned(s, FALSE)

\* ---------------------------------------------------------------- url.Parse
\* strings.Index and strings.LastIndex: the position of sub in s, 0 when s
\* does not contain it.
Index(s, sub) ==
    IF ~Contains(s, sub) THEN 0
    ELSE CHOOSE i \in 1..(Len(s) + 1) :
            /\ HasPrefixAt(s, sub, i)
            /\ \A j \in 1..(i - 1) : ~HasPrefixAt(s, sub, j)
LastIndex(s, sub) ==
    IF ~Contains(s, sub) THEN 0
    ELSE CHOOSE i \in 1..(Len(s) + 1) :
            /\ HasPrefixAt(s, sub, i)
            /\ \A j \in (i + 1)..(Len(s) + 1) : ~HasPrefixAt(s, sub, j)
\* strings.Cut: what is before and after the first sub in s
Before(s, sub) == IF ~Contains(s, sub) THEN s ELSE SubSeq(s, 1, Index(s, sub) - 1)
After(s, sub) ==
    IF ~Contains(s, sub) THEN <<>> ELSE SubSeq(s, Index(s, sub) + Len(sub), Len(s))

\* getScheme: the position of the ':' that ends the scheme, 0 when the URL has
\* no scheme, -1 for "missing protocol scheme".
RECURSIVE SchemeEnd(_, _)
SchemeEnd(s, i) ==
    IF i > Len(s) THEN 0
    ELSE IF IsLetter(s[i]) THEN SchemeEnd(s, i + 1)
    ELSE IF IsDigit(s[i]) \/ s[i] \in {"+", "-", "."}
         THEN IF i = 1 THEN 0 ELSE SchemeEnd(s, i + 1)
    ELSE IF s[i] = ":" THEN IF i = 1 THEN -1 ELSE i
    ELSE 0

\* shouldEscape(c, encodeHost)
shouldEscapeHost(c) ==
    ~(\/ IsLetter(c)
      \/ IsDigit(c)
      \/ c \in {"!", "$", "&", "'", "(", ")", "*", "+", ",", ";", "=", ":", "[", "]",
                "<", ">", "\"", "-", "_", ".", "~"})

HexChars == <<"0","1","2","3","4","5","6","7","8","9","a","b","c","d","e","f">>
ishex(c) == \E i \in 1..Len(HexChars) : HexChars[i] = ToLowerChar(c) /\ c \in AsciiChars
unhex(c) == (CHOOSE i \in 1..Len(HexChars) : HexChars[i] = ToLowerChar(c)) - 1

\* In a zone, an escaped byte v must be "%25", a space or a byte a host may hold.
ZoneByte(v) ==
    \/ v = 32
    \/ v \in 32..126 /\ ~shouldEscapeHost(Printable[v - 31])

\* unescape(s, mode): its error. The modes are "host", "zone" and "other"
\* (encodePath, encodeUserPassword and encodeFragment fail alike).
RECURSIVE unescape(_, _)
Escape(s, mode) ==
    IF Len(s) < 3 \/ ~ishex(s[2]) \/ ~ishex(s[3]) THEN "invalid URL escape"
    ELSE IF mode = "host" /\ unhex(s[2]) < 8 /\ SubSeq(s, 1, 3) # <<"%","2","5">>
         THEN "invalid URL escape"
    ELSE IF mode = "zone" /\ SubSeq(s, 1, 3) # <<"%","2","5">>
                          /\ ~ZoneByte(16 * unhex(s[2]) + unhex(s[3]))
         THEN "invalid URL escape"
    ELSE unescape(SubSeq(s, 4, Len(s)), mode)
unescape(s, mode) ==
    IF s = <<>> THEN None
    ELSE IF s[1] = "%" THEN Escape(s, mode)
    ELSE IF mode \in {"host", "zone"} /\ s[1] \in AsciiChars /\ shouldEscapeHost(s[1])
         THEN "invalid character in host name"
    ELSE unescape(Tail(s), mode)

validOptionalPort(port) ==
    \/ port = <<>>
    \/ port[1] = ":" /\ \A i \in 2..Len(port) : IsDigit(port[i])

validUserinfo(s) ==
    \A i \in 1..Len(s) :
        \/ IsLetter(s[i])
        \/ IsDigit(s[i])
        \/ s[i] \in {"-", ".", "_", ":", "~", "!", "$", "&", "'", "(", ")", "*", "+",
                     ",", ";", "=", "%", "@"}

\* The first error of a sequence of errors.
RECURSIVE FirstError(_)
FirstError(es) ==
    IF es = <<>> THEN None ELSE IF es[1] # None THEN es[1] ELSE FirstError(Tail(es))

\* parseHost: its error. i is the position of the last ']' of an IP literal,
\* zone that of the "%25" before it.
ZoneHost(host, i, zone) ==
    FirstError(<< unescape(SubSeq(host, 1, zone - 1), "host"),
                  unescape(SubSeq(host, zone, i - 1), "zone"),
                  unescape(SubSeq(host, i, Len(host)), "host") >>)
LiteralHost(host, i) ==
    IF i = 0 THEN "missing ']' in host"
    ELSE IF ~validOptionalPort(SubSeq(host, i + 1, Len(host)))
         THEN "invalid port after host"
    ELSE IF Contains(SubSeq(host, 1, i - 1), <<"%","2","5">>)
         THEN ZoneHost(host, i, Index(SubSeq(host, 1, i - 1), <<"%","2","5">>))
    ELSE unescape(host, "host")
parseHost(host) ==
    IF HasPrefixAt(host, <<"[">>, 1) THEN LiteralHost(host, LastIndex(host, <<"]">>))
    ELSE IF Contains(host, <<":">>)
            /\ ~validOptionalPort(SubSeq(host, LastIndex(host, <<":">>), Len(host)))
         THEN "invalid port after host"
    ELSE unescape(host, "host")

\* parseAuthority: its error. i is the position of the last '@'.
Userinfo(userinfo) ==
    IF ~validUserinfo(userinfo) THEN "invalid userinfo"
    ELSE IF ~Contains(userinfo, <<":">>) THEN unescape(userinfo, "other")
    ELSE FirstError(<< unescape(Before(userinfo, <<":">>), "other"),
                       unescape(After(userinfo, <<":">>), "other") >>)
AuthorityAt(authority, i) ==
    IF i = 0 THEN parseHost(authority)
    ELSE FirstError(<< parseHost(SubSeq(authority, i + 1, Len(authority))),
                       Userinfo(SubSeq(authority, 1, i - 1)) >>)
parseAuthority(authority) == AuthorityAt(authority, LastIndex(authority, <<"@">>))

\* parse(rawURL, false): its error. rest is what follows the scheme, with the
\* query cut off.
CutQuery(rest) ==
    IF HasSuffix(rest, <<"?">>) /\ Cardinality({ i \in 1..Len(rest) : rest[i] = "?" }) = 1
    THEN SubSeq(rest, 1, Len(rest) - 1)
    ELSE Before(rest, <<"?">>)
WithAuthority(a) ==
    FirstError(<< parseAuthority(Before(a, <<"/">>)),
                  unescape(SubSeq(a, Len(Before(a, <<"/">>)) + 1, Len(a)), "other") >>)
ParseRest(hasScheme, rest) ==
    IF ~HasPrefixAt(rest, <<"/">>, 1) /\ hasScheme THEN None
    ELSE IF ~HasPrefixAt(rest, <<"/">>, 1) /\ Contains(Before(rest, <<"/">>), <<":">>)
         THEN "first path segment in URL cannot contain colon"
    ELSE IF (hasScheme \/ ~HasPrefixAt(rest, <<"/","/","/">>, 1))
            /\ HasPrefixAt(rest, <<"/","/">>, 1)
         THEN WithAuthority(SubSeq(rest, 3, Len(rest)))
    ELSE unescape(rest, "other")
AfterScheme(rawURL, e) ==
    IF e = -1 THEN "missing protocol scheme"
    ELSE ParseRest(e > 0, CutQuery(SubSeq(rawURL, e + 1, Len(rawURL))))
parse(rawURL) ==
    IF \E i \in 1..Len(rawURL) : rawURL[i] \in CtlChars
    THEN "invalid control character in URL"
    ELSE IF rawURL = <<"*">> THEN None
    ELSE AfterScheme(rawURL, SchemeEnd(rawURL, 1))

\* url.Parse: its error.
UrlParse(rawURL) ==
    FirstError(<< parse(Before(rawURL, <<"#">>)),
                  unescape(After(rawURL, <<"#">>), "other") >>)

\* ------------------------------------------------------ option values (any)
\* A value of the options map: missing, a string, a time.Duration, or a value
\* of some other type (a YAML number, a list, ...).
Absent == [t |-> "absent"]
S(s) == [t |-> "string", s |-> s]
D(d) == [t |-> "duration", d |-> d]
Other == [t |-> "other"]

Has(o) == o.t # "absent"
IsString(o) == o.t = "string"

\* ----------------------------------------- address ranges (awsIPs, s3filter)
\* Addresses are AddrBits wide; a network is its base address and prefix length.
AddrBits == 4

RECURSIVE Pow2(_)
Pow2(n) == IF n = 0 THEN 1 ELSE 2 * Pow2(n - 1)

\* A prefix of the published document parses when its length fits the address
\* family; the network it names has the host bits zeroed.
ValidPrefix(p) == p.len \in 0..AddrBits /\ p.a \in 0..(Pow2(AddrBits) - 1)
ParseCIDR(p) ==
    [base |-> (p.a \div Pow2(AddrBits - p.len)) * Pow2(AddrBits - p.len),
     len  |-> p.len]

\* net.IPNet.Contains
NetContains(n, ip) ==
    ip \div Pow2(AddrBits - n.len) = n.base \div Pow2(AddrBits - n.len)

\* The region filter: nil or empty accepts every region, otherwise the entry's
\* lower-cased region must be one of the configured ones.
RegionAllowed(awsRegion, region) ==
    \/ Len(awsRegion) = 0
    \/ \E k \in 1..Len(awsRegion) : ToLower(region) = awsRegion[k]

\* RangeSource.fetch on a document that parsed: the retained networks, in the
\* document's order; an entry with a malformed prefix is dropped.
RECURSIVE BuildRangeSet(_, _)
BuildRangeSet(doc, awsRegion) ==
    IF doc = <<>> THEN <<>>
    ELSE LET e == doc[1]
             rest == BuildRangeSet(Tail(doc), awsRegion)
         IN  IF ValidPrefix(e.prefix) /\ RegionAllowed(awsRegion, e.region)
             THEN <<ParseCIDR(e.prefix)>> \o rest
             ELSE rest

EmptyRangeSet == <<>>

\* RangeSet.contains: exact prefix containment against every retained network.
RangeSetContains(set, ip) == \E k \in 1..Len(set) : NetContains(set[k], ip)

\* The outcome of one fetch of the published document: the document, or the
\* kind of the failure ("FetchError": the network or the timeout; "ParseError":
\* what came back is no document).
FetchFailed(kind) == [ok |-> FALSE, doc |-> <<>>, kind |-> kind]
Fetched(doc) == [ok |-> TRUE, doc |-> doc, kind |-> None]

\* Variant of AfterFetch: a failed fetch empties the snapshot.
AfterFetch_ClearOnFailure(cur, awsRegion, fetch) ==
    IF fetch.ok THEN BuildRangeSet(fetch.doc, awsRegion) ELSE EmptyRangeSet

\* The refresher's snapshot after a fetch: replaced on success, kept otherwise.
AfterFetch(cur, awsRegion, fetch) ==
    IF fetch.ok THEN BuildRangeSet(fetch.doc, awsRegion) ELSE cur

\* defaultUpdateFrequency and defaultIPRangesURL of the range refresher.
defaultUpdateFrequency == DurMul(12, Hour)
defaultIPRangesURL == <<"d">>

\* Variant of newAWSIPs: a failed first fetch is returned as an error.
newAWSIPs_FatalFetch(host, updateFrequency, awsRegion, fetch, fault) ==
    [err |-> IF fault = NoErr /\ ~fetch.ok
             THEN Err("failed to update AWS IP", fetch.kind, host) ELSE fault,
     ips |-> [nil |-> FALSE, host |-> host, updateFrequency |-> updateFrequency,
              awsRegion |-> awsRegion],
     ranges |-> AfterFetch(EmptyRangeSet, awsRegion, fetch),
     period |-> updateFrequency]

\* newAWSIPs (RangeRefresher.start): one synchronous fetch; a failed fetch of
\* either kind leaves the empty range set, and the refresher starts all the
\* same, its loop sleeping updateFrequency before each later fetch. The code
\* calls it for a pointer and an error; the fetch is no cause of that error,
\* so the error is an input: fault is what newAWSIPs returns when it fails
\* for a cause of its own, NoErr when it does not.
newAWSIPs(host, updateFrequency, awsRegion, fetch, fault) ==
    [err |-> fault,
     ips |-> [nil |-> FALSE, host |-> host, updateFrequency |-> updateFrequency,
              awsRegion |-> awsRegion],
     ranges |-> AfterFetch(EmptyRangeSet, awsRegion, fetch),
     period |-> updateFrequency]


\* ------------------------------------------ newCloudFrontStorageMiddleware
\* The nil *awsIPs and the nil middleware are [nil |-> TRUE].
\* parse baseurl
NormalizeBaseURL(b) ==
    IF ~HasSuffix(b, <<"/">>) THEN b \o <<"/">> ELSE b
CheckBaseURL(b, e) ==
    IF e # None THEN [err |-> Err("invalid baseurl", e, <<>>), baseURL |-> <<>>]
    ELSE [err |-> NoErr, baseURL |-> b]
NormalizedBaseURL(b) ==
    IF ~Contains(b, <<":", "/", "/">>)
    THEN NormalizeBaseURL(<<"h","t","t","p","s",":","/","/">> \o b)
    ELSE NormalizeBaseURL(b)
ParseBaseURL(options) ==
    IF ~Has(options.baseurl) THEN [err |-> Err("no baseurl provided", None, <<>>), baseURL |-> <<>>]
    ELSE IF ~IsString(options.baseurl)
         THEN [err |-> Err("baseurl must be a string", None, <<>>), baseURL |-> <<>>]
    ELSE CheckBaseURL(NormalizedBaseURL(options.baseurl.s),
                      UrlParse(NormalizedBaseURL(options.baseurl.s)))

\* parse privatekey and keypairid, read the key file and build the URL signer.
\* keyfile is what the file at pkPath holds.
LoadSigner(options, keyfile) ==
    IF ~Has(options.privatekey) THEN Err("no privatekey provided", None, <<>>)
    ELSE IF ~IsString(options.privatekey) THEN Err("privatekey must be a string", None, <<>>)
    ELSE IF ~Has(options.keypairid) THEN Err("no keypairid provided", None, <<>>)
    ELSE IF ~IsString(options.keypairid) THEN Err("keypairid must be a string", None, <<>>)
    ELSE IF keyfile = "unreadable" THEN Err("failed to read privatekey file", None, <<>>)
    ELSE IF keyfile = "nopem"
         THEN Err("failed to decode private key as an rsa private key", None, <<>>)
    ELSE IF keyfile = "notpkcs1" THEN Err("x509: failed to parse private key", None, <<>>)
    ELSE NoErr

\* 20 * time.Minute
defaultDuration == DurMul(20, Minute)

\* parse duration
ParsedDuration(r, input) ==
    IF r.err # None THEN [err |-> Err("invalid duration", r.err, input), duration |-> Duration(FALSE, <<>>)]
    ELSE [err |-> NoErr, duration |-> r.d]
ParseDurationOption(d) ==
    IF d.t = "duration" THEN [err |-> NoErr, duration |-> d.d]
    ELSE IF d.t = "string" THEN ParsedDuration(ParseDuration(d.s), d.s)
    ELSE [err |-> NoErr, duration |-> defaultDuration]

\* Variant of WithLegacyFrequency: the legacy key is not copied.
WithLegacyFrequency_Ignored(options) == options

\* The options map after the legacy key was copied over the correct one.
WithLegacyFrequency(options) ==
    IF Has(options.updatefrenquency)
    THEN [options EXCEPT !.updatefrequency = options.updatefrenquency]
    ELSE options

\* parse updatefrequency: the interval, the error, and whether the
\* deprecation warning was logged.
ParsedFrequency(r, input, deprecated) ==
    IF r.err # None
    THEN [err |-> Err("invalid updatefrequency", r.err, input),
          updateFrequency |-> Duration(FALSE, <<>>), deprecated |-> deprecated]
    ELSE [err |-> NoErr, updateFrequency |-> r.d, deprecated |-> deprecated]
FrequencyOf(u, deprecated) ==
    IF u.t = "duration"
    THEN [err |-> NoErr, updateFrequency |-> u.d, deprecated |-> deprecated]
    ELSE IF u.t = "string" THEN ParsedFrequency(ParseDuration(u.s), u.s, deprecated)
    ELSE [err |-> NoErr, updateFrequency |-> defaultUpdateFrequency,
          deprecated |-> deprecated]
ParseUpdateFrequency(options) ==
    FrequencyOf(WithLegacyFrequency(options).updatefrequency,
                Has(options.updatefrenquency))

\* parse iprangesurl
ParseIPRangesURL(i) ==
    IF ~Has(i) THEN [err |-> NoErr, ipRangesURL |-> defaultIPRangesURL]
    ELSE IF IsString(i) THEN [err |-> NoErr, ipRangesURL |-> i.s]
    ELSE [err |-> Err("iprangesurl must be a string", None, <<>>), ipRangesURL |-> <<>>]

\* The regions of the awsregion option: split at ',', trimmed, lower-cased.
TrimLower(parts) == [k \in 1..Len(parts) |-> ToLower(TrimSpace(parts[k]))]
ParseRegions(regions) == TrimLower(Split(regions, ","))

\* What the ipfilteredby step leaves: its error, the *awsIPs (nil without
\* filtering and after an error), the refresher's first snapshot and sleep
\* interval, and whether newAWSIPs was called.
NoFilter(err) ==
    [err |-> err, awsIPs |-> [nil |-> TRUE], ranges |-> EmptyRangeSet,
     period |-> Duration(FALSE, <<>>), started |-> FALSE]
Filter(r) ==
    [err |-> r.err, awsIPs |-> IF r.err = NoErr THEN r.ips ELSE [nil |-> TRUE],
     ranges |-> IF r.err = NoErr THEN r.ranges ELSE EmptyRangeSet,
     period |-> IF r.err = NoErr THEN r.period ELSE Duration(FALSE, <<>>),
     started |-> TRUE]

\* Variant of FilterMode: "none" falls into the "aws" case.
FilterMode_NoneIsAws(mode, options, ipRangesURL, updateFrequency, fetch, fault) ==
    IF mode = <<>> THEN NoFilter(NoErr)
    ELSE IF mode = <<"a","w","s">> \/ mode = <<"n","o","n","e">>
         THEN Filter(newAWSIPs(ipRangesURL, updateFrequency, <<>>, fetch, fault))
    ELSE IF mode = <<"a","w","s","r","e","g","i","o","n">>
         THEN IF ~IsString(options.awsregion)
              THEN NoFilter(Err("awsRegion is not defined", None, <<>>))
              ELSE Filter(newAWSIPs(ipRangesURL, updateFrequency,
                                    ParseRegions(options.awsregion.s), fetch, fault))
    ELSE NoFilter(Err("ipfilteredby only allows a string the following value: none|aws|awsregion", None, <<>>))

\* parse ipfilteredby: the *awsIPs of the middleware (nil when filtering is
\* off) and the snapshot its refresher starts with.
FilterMode(mode, options, ipRangesURL, updateFrequency, fetch, fault) ==
    IF mode = <<>> \/ mode = <<"n","o","n","e">> THEN NoFilter(NoErr)
    ELSE IF mode = <<"a","w","s">>
         THEN Filter(newAWSIPs(ipRangesURL, updateFrequency, <<>>, fetch, fault))
    ELSE IF mode = <<"a","w","s","r","e","g","i","o","n">>
         THEN IF ~Has(options.awsregion)
              THEN NoFilter(Err("awsRegion is not defined", None, <<>>))
              ELSE IF ~IsString(options.awsregion)
                   THEN NoFilter(Err("awsRegion must be a comma separated string of valid aws regions", None, <<>>))
              ELSE Filter(newAWSIPs(ipRangesURL, updateFrequency,
                                    ParseRegions(options.awsregion.s), fetch, fault))
    ELSE NoFilter(Err("ipfilteredby only allows a string the following value: none|aws|awsregion", None, <<>>))
ParseIPFilteredBy(options, ipRangesURL, updateFrequency, fetch, fault) ==
    IF ~Has(options.ipfilteredby) THEN NoFilter(NoErr)
    ELSE IF ~IsString(options.ipfilteredby)
         THEN NoFilter(Err("ipfilteredby only allows a string with the following value: none|aws|awsregion", None, <<>>))
    ELSE FilterMode(ToLower(TrimSpace(options.ipfilteredby.s)), options,
                    ipRangesURL, updateFrequency, fetch, fault)

Failed(err, deprecated, started) ==
    [err |-> err, mw |-> [nil |-> TRUE], ranges |-> EmptyRangeSet,
     period |-> Duration(FALSE, <<>>), deprecated |-> deprecated, started |-> started]

\* The steps of the constructor, in the order of the code: each returns at its
\* first error.
Build(storageDriver, base, dur, upd, ipf) ==
    IF ipf.err # NoErr THEN Failed(ipf.err, upd.deprecated, ipf.started)
    ELSE [err |-> NoErr,
          mw |-> [nil |-> FALSE, StorageDriver |-> storageDriver,
                  baseURL |-> base.baseURL, duration |-> dur.duration,
                  awsIPs |-> ipf.awsIPs],
          ranges |-> ipf.ranges,
          period |-> ipf.period,
          deprecated |-> upd.deprecated,
          started |-> ipf.started]
WithRanges(storageDriver, options, fetch, fault, base, dur, upd, url) ==
    IF url.err # NoErr THEN Failed(url.err, upd.deprecated, FALSE)
    ELSE Build(storageDriver, base, dur, upd,
               ParseIPFilteredBy(options, url.ipRangesURL, upd.updateFrequency,
                                 fetch, fault))
WithFrequency(storageDriver, options, fetch, fault, base, dur, upd) ==
    IF upd.err # NoErr THEN Failed(upd.err, upd.deprecated, FALSE)
    ELSE WithRanges(storageDriver, options, fetch, fault, base, dur, upd,
                    ParseIPRangesURL(options.iprangesurl))
WithDuration(storageDriver, options, fetch, fault, base, dur) ==
    IF dur.err # NoErr THEN Failed(dur.err, FALSE, FALSE)
    ELSE WithFrequency(storageDriver, options, fetch, fault, base, dur,
                       ParseUpdateFrequency(options))
WithSigner(storageDriver, options, fetch, fault, base, sig) ==
    IF sig # NoErr THEN Failed(sig, FALSE, FALSE)
    ELSE WithDuration(storageDriver, options, fetch, fault, base,
                      ParseDurationOption(options.duration))
WithBaseURL(storageDriver, options, keyfile, fetch, fault, base) ==
    IF base.err # NoErr THEN Failed(base.err, FALSE, FALSE)
    ELSE WithSigner(storageDriver, options, fetch, fault, base,
                    LoadSigner(options, keyfile))

\* The constructor: the error or the middleware, the snapshot and the sleep
\* interval its refresher starts with, whether the deprecation warning was
\* logged and whether newAWSIPs was called. keyfile, fetch and fault are what
\* the constructor meets outside: the key file, the first fetch of the
\* refresher and the refresher's own failure.
newCloudFrontStorageMiddleware(storageDriver, options, keyfile, fetch, fault) ==
    WithBaseURL(storageDriver, options, keyfile, fetch, fault, ParseBaseURL(options))

\* ------------------------------------------------------------- RedirectURL
\* A URL handed to the caller: its text, and for a signed CloudFront URL the
\* expiry the signature covers. NoURL is the empty string.
PlainURL(raw) == [raw |-> raw, signed |-> FALSE, expires |-> Duration(FALSE, <<>>)]
SignedURL(raw, expires) == [raw |-> raw, signed |-> TRUE, expires |-> expires]
NoURL == PlainURL(<<>>)

\* sign.URLSigner.Sign(url, expires): the signed URL, or the signer's error.
Sign(url, expires, signErr) ==
    IF signErr = NoErr THEN [url |-> SignedURL(url, expires), err |-> NoErr]
    ELSE [url |-> NoURL, err |-> signErr]

\* S3BucketKeyer.S3BucketKey of the wrapped driver (a driver with an empty
\* root directory: the path without its leading '/').
S3BucketKey(path) ==
    IF path # <<>> /\ path[1] = "/" THEN Tail(path) ELSE path

\* The address of the request: parsed from its remote address without the
\* port; a remote address that does not parse names no address.
ParseIPFromRequest(r) == [ok |-> r.parses, ip |-> r.ip]

\* eligibleForS3: the request comes from one of the current ranges. Without a
\* range refresher (nil) and for an address that does not parse: never.
eligibleForS3(r, awsIPs, ranges) ==
    /\ ~awsIPs.nil
    /\ ParseIPFromRequest(r).ok
    /\ RangeSetContains(ranges, ParseIPFromRequest(r).ip)

Passthrough(storeRet, warned, read) ==
    [url |-> storeRet.url, err |-> storeRet.err, warned |-> warned,
     storeCalled |-> TRUE, rangesRead |-> read,
     sign |-> [called |-> FALSE, url |-> <<>>, expires |-> Duration(FALSE, <<>>)]]

\* Variant of SignedResult: the signer's error is dropped.
SignedResult_Swallowed(lh, target, expires, signed) ==
    [url |-> IF signed.err # NoErr THEN NoURL ELSE signed.url,
     err |-> NoErr, warned |-> FALSE, storeCalled |-> FALSE,
     rangesRead |-> ~lh.awsIPs.nil,
     sign |-> [called |-> TRUE, url |-> target, expires |-> expires]]

\* Get signed cloudfront url.
SignedResult(lh, target, expires, signed) ==
    [url |-> IF signed.err # NoErr THEN NoURL ELSE signed.url,
     err |-> signed.err, warned |-> FALSE, storeCalled |-> FALSE,
     rangesRead |-> ~lh.awsIPs.nil,
     sign |-> [called |-> TRUE, url |-> target, expires |-> expires]]
Signed(lh, target, expires, signErr) ==
    SignedResult(lh, target, expires, Sign(target, expires, signErr))

\* Variants of RedirectURL: the eligibility test comes before the capability
\* test; the eligibility test is inverted; an empty range set makes every
\* request eligible.
RedirectURL_FilterFirst(lh, ranges, r, path, now, storeRet, signErr) ==
    IF eligibleForS3(r, lh.awsIPs, ranges) THEN Passthrough(storeRet, FALSE, TRUE)
    ELSE IF ~lh.StorageDriver.keyer THEN Passthrough(storeRet, TRUE, ~lh.awsIPs.nil)
    ELSE Signed(lh, lh.baseURL \o S3BucketKey(path), Add(now, lh.duration), signErr)
RedirectURL_Inverted(lh, ranges, r, path, now, storeRet, signErr) ==
    IF ~lh.StorageDriver.keyer THEN Passthrough(storeRet, TRUE, FALSE)
    ELSE IF ~lh.awsIPs.nil /\ ~eligibleForS3(r, lh.awsIPs, ranges)
         THEN Passthrough(storeRet, FALSE, TRUE)
    ELSE Signed(lh, lh.baseURL \o S3BucketKey(path), Add(now, lh.duration), signErr)
RedirectURL_FailOpen(lh, ranges, r, path, now, storeRet, signErr) ==
    IF ~lh.StorageDriver.keyer THEN Passthrough(storeRet, TRUE, FALSE)
    ELSE IF (~lh.awsIPs.nil /\ ranges = <<>>) \/ eligibleForS3(r, lh.awsIPs, ranges)
         THEN Passthrough(storeRet, FALSE, TRUE)
    ELSE Signed(lh, lh.baseURL \o S3BucketKey(path), Add(now, lh.duration), signErr)

\* RedirectURL(r, path) of the middleware lh, with the refresher's snapshot
\* ranges, the clock now, what the wrapped driver's RedirectURL returns for
\* (r, path) and the error (or nil) of the signer. The result: the url and
\* error returned, whether the warning was logged, and what was consulted.
RedirectURL(lh, ranges, r, path, now, storeRet, signErr) ==
    IF ~lh.StorageDriver.keyer THEN Passthrough(storeRet, TRUE, FALSE)
    ELSE IF eligibleForS3(r, lh.awsIPs, ranges)
         THEN Passthrough(storeRet, FALSE, TRUE)
    ELSE Signed(lh, lh.baseURL \o S3BucketKey(path), Add(now, lh.duration), signErr)

\* ---------------------------------------------------------------- inputs
Base ==
    [baseurl |-> S(<<"c">>), privatekey |-> S(<<"k">>), keypairid |-> S(<<"i">>),
     duration |-> Absent, updatefrequency |-> Absent, updatefrenquency |-> Absent,
     iprangesurl |-> Absent, ipfilteredby |-> Absent, awsregion |-> Absent]
Aws == [Base EXCEPT !.ipfilteredby = S(<<"a","w","s">>)]

FrequencyValues ==
    { D(DurMul(3, Second)), S(<<"1",".","5","m">>), S(<<"5">>), Other }

BaseURLInputs ==
    { [Base EXCEPT !.baseurl = v] :
        v \in { Absent, Other, S(<<"h",":","/","/","c","/">>), S(<<":","/","/","c">>),
                S(<<"c",":","x">>) } }
KeyInputs ==
    { [Base EXCEPT !.privatekey = v] : v \in { Absent, Other } }
      \cup { [Base EXCEPT !.keypairid = v] : v \in { Absent, Other } }
DurationInputs ==
    { [Base EXCEPT !.duration = v] :
        v \in { D(DurMul(2, Second)), S(<<"1","s">>), S(<<"1","5","0","0","u","s">>),
                S(<<"0",".","9","9","9","9","9","9","9","9","9","9","9","9","9","9","9","9","s">>),
                S(<<"x">>), Other } }
FrequencyInputs ==
    { [Aws EXCEPT !.updatefrequency = v] : v \in FrequencyValues }
      \cup { [Aws EXCEPT !.updatefrenquency = v] : v \in FrequencyValues }
      \cup { [Aws EXCEPT !.updatefrequency = D(DurMul(3, Second)), !.updatefrenquency = v] :
               v \in { S(<<"2","s">>) } }
FilterInputs ==
    { [Base EXCEPT !.ipfilteredby = v] :
        v \in { Other, S(<<>>), S(<<"n","o","n","e">>), S(<<" ","N","o","n","e"," ">>),
                S(<<"\f","A","W","S","U+00A0">>), S(<<"a","w","s">>), S(<<"x">>) } }
      \cup { [Base EXCEPT !.ipfilteredby = S(<<"a","w","s","r","e","g","i","o","n">>),
                          !.awsregion = v] :
               v \in { Absent, Other, S(<<"a">>), S(<<"b",","," ","A">>), S(<<"U+00C9">>),
                       S(<<>>) } }
RangesURLInputs ==
    { [Aws EXCEPT !.iprangesurl = v] : v \in { Other, S(<<"u">>) } }

\* Two published documents: networks with a region, one entry malformed and
\* one with host bits set.
Doc1 == << [prefix |-> [a |-> 8, len |-> 1], region |-> <<"a">>],
           [prefix |-> [a |-> 5, len |-> 2], region |-> <<"B">>],
           [prefix |-> [a |-> 1, len |-> 9], region |-> <<"a">>] >>
Doc2 == << [prefix |-> [a |-> 4, len |-> 2], region |-> <<"a">>] >>
Docs == { Doc1, Doc2 }
FetchOutcomes ==
    { FetchFailed(k) : k \in {"FetchError", "ParseError"} } \cup { Fetched(d) : d \in Docs }

\* What the constructor is given: the options, the driver it wraps, what the
\* private key file holds, the outcome of the first fetch and the refresher's
\* own failure. Every filter mode meets every fetch outcome with a keyed
\* driver, and the unkeyed driver meets filtering on and off; the other
\* options vary with a keyed driver and a first fetch of Doc1; the key file
\* varies alone; a refresher that fails meets the two filtering modes and
\* every fetch outcome.
In(options, drv, keyfile, fetch, fault) ==
    [options |-> options, drv |-> drv, keyfile |-> keyfile, fetch |-> fetch,
     fault |-> fault]
ConstructorInputs ==
    { In(o, [keyer |-> TRUE], "ok", f, NoErr) : o \in FilterInputs, f \in FetchOutcomes }
      \cup { In(o, [keyer |-> FALSE], "ok", f, NoErr) :
               o \in {Base, Aws}, f \in FetchOutcomes }
      \cup { In(o, [keyer |-> TRUE], "ok", Fetched(Doc1), NoErr) :
               o \in {Base} \cup BaseURLInputs \cup KeyInputs \cup DurationInputs
                       \cup FrequencyInputs \cup RangesURLInputs }
      \cup { In(Base, [keyer |-> TRUE], k, FetchFailed("FetchError"), NoErr) :
               k \in { "ok", "unreadable", "nopem", "notpkcs1" } }
      \cup { In(o, [keyer |-> TRUE], "ok", f, Err("awsips: not started", None, <<>>)) :
               o \in {Aws, [Aws EXCEPT !.ipfilteredby = S(<<"a","w","s","r","e","g","i","o","n">>),
                                       !.awsregion = S(<<"a">>)]},
               f \in FetchOutcomes }

\* The wrapped driver holds a file at "/p" and none at "q": its RedirectURL
\* returns the file's URL, or an error if the file cannot be found.
StoreRedirectURL(path) ==
    IF path = <<"/","p">> THEN [url |-> PlainURL(<<"o",":">> \o path), err |-> NoErr]
    ELSE [url |-> NoURL, err |-> Err("store: path not found", None, path)]

\* ------------------------------------------------------------------ state
VARIABLES
    pc,           \* "new", "running" (constructed) or "failed" (constructor error)
    opts,         \* the options the constructor was given
    mw,           \* the middleware the constructor returned
    ctorErr,      \* the error the constructor returned
    deprecations, \* deprecation warnings logged
    start,        \* whether newAWSIPs was called, its first fetch and its fault
    ranges,       \* the refresher's current snapshot
    updater,      \* the refresh loop: "off", "idle" (sleeping) or "fetching"
    period,       \* the interval the refresh loop sleeps before a fetch
    refreshes,    \* ticks of the refresh loop so far
    lastGood,     \* the document of the latest successful fetch, if any
    failures,     \* failed refreshes since the latest successful fetch
    now,          \* the clock
    calls,        \* RedirectURL calls so far
    warnings,     \* unsupported-driver warnings logged
    last          \* the latest RedirectURL call and its result

vars == <<pc, opts, mw, ctorErr, deprecations, start, ranges, updater, period,
          refreshes, lastGood, failures, now, calls, warnings, last>>

NoDoc == [some |-> FALSE, doc |-> <<>>]

Init ==
    /\ pc = "new"
    /\ opts = [k \in DOMAIN Base |-> Absent]
    /\ mw = [nil |-> TRUE]
    /\ ctorErr = NoErr
    /\ deprecations = 0
    /\ start = [called |-> FALSE, fetch |-> Fetched(<<>>), fault |-> NoErr]
    /\ ranges = EmptyRangeSet
    /\ updater = "off"
    /\ period = Duration(FALSE, <<>>)
    /\ refreshes = 0
    /\ lastGood = NoDoc
    /\ failures = 0
    /\ now = 0
    /\ calls = 0
    /\ warnings = 0
    /\ last = [made |-> FALSE]

\* newCloudFrontStorageMiddleware(ctx, storageDriver, options): the state
\* the constructor's result c leaves.
Constructed(c, in, filtering) ==
    /\ pc' = IF c.err = NoErr THEN "running" ELSE "failed"
    /\ opts' = in.options
    /\ mw' = c.mw
    /\ ctorErr' = c.err
    /\ deprecations' = IF c.deprecated THEN 1 ELSE 0
    /\ start' = IF c.started
                THEN [called |-> TRUE, fetch |-> in.fetch, fault |-> in.fault]
                ELSE [called |-> FALSE, fetch |-> Fetched(<<>>), fault |-> NoErr]
    /\ ranges' = c.ranges
    /\ updater' = IF filtering THEN "idle" ELSE "off"
    /\ period' = c.period
    /\ lastGood' = IF filtering /\ in.fetch.ok
                   THEN [some |-> TRUE, doc |-> in.fetch.doc] ELSE NoDoc
ConstructedBy(c, in) ==
    Constructed(c, in, c.err = NoErr /\ ~c.mw.awsIPs.nil)

Construct ==
    /\ pc = "new"
    /\ \E in \in ConstructorInputs :
         ConstructedBy(newCloudFrontStorageMiddleware(in.drv, in.options, in.keyfile,
                                                      in.fetch, in.fault),
                       in)
    /\ UNCHANGED <<refreshes, failures, now, calls, warnings, last>>

\* One call of RedirectURL on the constructed middleware, and what it logs.
\* The request comes from address 9 or 5 or from an address that does not
\* parse, for the path "/p" or "q"; the signer signs or fails.
Returned(r, path, storeRet, signErr, ret) ==
    /\ last' = [made |-> TRUE, r |-> r, path |-> path, at |-> now,
                storeRet |-> storeRet,
                signErr |-> IF ret.sign.called THEN signErr ELSE NoErr,
                snapshot |-> ranges, ret |-> ret]
    /\ warnings' = warnings + (IF ret.warned THEN 1 ELSE 0)

Redirect ==
    /\ pc = "running"
    /\ calls < MaxRequests
    /\ \E r \in { [parses |-> TRUE, ip |-> 9], [parses |-> TRUE, ip |-> 5],
                   [parses |-> FALSE, ip |-> 0] },
          path \in { <<"/","p">>, <<"q">> },
          signErr \in { NoErr, Err("sign: failed to sign url", None, <<>>) } :
         Returned(r, path, StoreRedirectURL(path), signErr,
                  RedirectURL(mw, ranges, r, path, now, StoreRedirectURL(path), signErr))
    /\ calls' = calls + 1
    /\ UNCHANGED <<pc, opts, mw, ctorErr, deprecations, start, ranges,
                   updater, period, refreshes, lastGood, failures, now>>

\* Time passes.
Tick ==
    /\ pc = "running"
    /\ now < MaxClock
    /\ now' = now + 1
    /\ UNCHANGED <<pc, opts, mw, ctorErr, deprecations, start, ranges,
                   updater, period, refreshes, lastGood, failures, calls, warnings,
                   last>>

\* The refresh loop wakes after its sleep and starts a fetch.
RefreshStart ==
    /\ updater = "idle"
    /\ refreshes < MaxRefreshes
    /\ updater' = "fetching"
    /\ refreshes' = refreshes + 1
    /\ UNCHANGED <<pc, opts, mw, ctorErr, deprecations, start, ranges, period,
                   lastGood, failures, now, calls, warnings, last>>

\* The fetch ends: the new snapshot replaces the old one in one step, and the
\* loop sleeps updateFrequency again.
RefreshSucceed ==
    /\ updater = "fetching"
    /\ \E d \in Docs :
         /\ ranges' = AfterFetch(ranges, mw.awsIPs.awsRegion, Fetched(d))
         /\ lastGood' = [some |-> TRUE, doc |-> d]
    /\ failures' = 0
    /\ updater' = "idle"
    /\ period' = mw.awsIPs.updateFrequency
    /\ UNCHANGED <<pc, opts, mw, ctorErr, deprecations, start, refreshes,
                   now, calls, warnings, last>>

\* The fetch fails (network, timeout, unparsable document): logged, and the
\* loop sleeps updateFrequency again.
RefreshFail ==
    /\ updater = "fetching"
    /\ \E k \in {"FetchError", "ParseError"} :
         ranges' = AfterFetch(ranges, mw.awsIPs.awsRegion, FetchFailed(k))
    /\ failures' = failures + 1
    /\ updater' = "idle"
    /\ period' = mw.awsIPs.updateFrequency
    /\ UNCHANGED <<pc, opts, mw, ctorErr, deprecations, start, refreshes,
                   lastGood, now, calls, warnings, last>>

Next ==
    \/ Construct
    \/ Redirect
    \/ Tick
    \/ RefreshStart
    \/ RefreshSucceed
    \/ RefreshFail

Spec == Init /\ [][Next]_vars

\* ------------------------------------------------------------ properties
Made == last.made
Keyed == pc = "running" /\ mw.StorageDriver.keyer
FilterOn == pc = "running" /\ ~mw.awsIPs.nil

\* The latest call was answered with the wrapped driver's own RedirectURL.
FromStore ==
    /\ last.ret.storeCalled
    /\ ~last.ret.sign.called
    /\ last.ret.url = StoreRedirectURL(last.path).url
    /\ last.ret.err = StoreRedirectURL(last.path).err

\* The latest call asked the signer for baseURL + key(path), expiring
\* duration after the time of the call, and returned what the signer gave.
FromSigner ==
    /\ last.ret.sign.called
    /\ ~last.ret.storeCalled
    /\ last.ret.sign.url = mw.baseURL \o S3BucketKey(last.path)
    /\ last.ret.sign.expires = Add(last.at, mw.duration)
    /\ last.signErr = NoErr =>
         /\ last.ret.err = NoErr
         /\ last.ret.url = SignedURL(mw.baseURL \o S3BucketKey(last.path),
                                     Add(last.at, mw.duration))

\* The snapshot the latest call read holds the address of its request.
OriginInSnapshot ==
    /\ last.r.parses
    /\ \E k \in 1..Len(last.snapshot) : NetContains(last.snapshot[k], last.r.ip)

\* C1: when the wrapped driver is no S3BucketKeyer, RedirectURL returns what
\* the driver's own RedirectURL returns for the request and path, whatever the
\* filtering state, and consults neither the signer nor the range set.
C1_PassThroughWithoutKeyer ==
    (Made /\ ~Keyed) => (FromStore /\ ~last.ret.rangesRead)

\* C1 witness: an unkeyed driver with filtering on, a request from outside
\* the (populated) range set, answered by the driver's URL.
C1_Witness ==
    /\ Made /\ ~Keyed /\ FilterOn
    /\ last.snapshot # <<>> /\ last.r.parses /\ ~OriginInSnapshot
    /\ last.ret.url = PlainURL(<<"o",":","/","p">>)

\* C2: with a keyed driver and filtering on, the driver's own redirect is
\* returned exactly when the snapshot read by the call holds the request's
\* address; otherwise the signer is asked for baseURL + key(path) expiring
\* duration after the call.
C2_FilteredDecision ==
    (Made /\ Keyed /\ FilterOn) =>
        /\ OriginInSnapshot <=> FromStore
        /\ ~OriginInSnapshot => FromSigner

\* C2 witness: a later request from outside a populated snapshot gets the
\* signed URL of its key.
C2_Witness ==
    /\ Made /\ Keyed /\ FilterOn
    /\ last.snapshot # <<>> /\ last.r.parses /\ ~OriginInSnapshot
    /\ last.at > 0
    /\ last.ret.url = SignedURL(mw.baseURL \o <<"p">>, Add(last.at, mw.duration))

\* The ipfilteredby option is missing, empty or "none".
FilteringDisabled ==
    opts.ipfilteredby \in { Absent, S(<<>>), S(<<"n","o","n","e">>) }

\* C3: with a keyed driver and filtering disabled there is no refresher, and
\* every request gets the signed URL of baseURL + key(path) expiring duration
\* after the call; the driver's own RedirectURL is never used.
C3_UnfilteredAlwaysSigned ==
    (pc = "running" /\ FilteringDisabled) =>
        /\ mw.awsIPs.nil
        /\ updater = "off"
        /\ (Made /\ Keyed) => FromSigner

\* C3 witness: ipfilteredby = "none", a request that parses, a signed URL.
C3_Witness ==
    /\ Made /\ Keyed
    /\ opts.ipfilteredby = S(<<"n","o","n","e">>)
    /\ last.r.parses
    /\ last.ret.url.signed

\* C4: once a fetch has succeeded the snapshot is the one built from the latest
\* successful fetch, whatever number of refreshes failed since; a failed
\* refresh leaves the snapshot as it was, and the refresher keeps running.
C4_KeepsLastGood ==
    /\ [](lastGood.some =>
            ranges = BuildRangeSet(lastGood.doc, mw.awsIPs.awsRegion))
    /\ [](FilterOn => updater \in {"idle", "fetching"})
    /\ [][failures' > failures => (ranges' = ranges /\ updater' = "idle")]_vars

\* C4 witness: two failed refreshes in a row after a successful fetch, with the
\* populated snapshot still in place.
C4_Witness ==
    /\ lastGood.some
    /\ failures = 2
    /\ ranges # <<>>
    /\ ranges = BuildRangeSet(lastGood.doc, mw.awsIPs.awsRegion)

\* The ipfilteredby option asks for filtering.
FilteringRequested ==
    /\ IsString(opts.ipfilteredby)
    /\ ToLower(TrimSpace(opts.ipfilteredby.s))
         \in { <<"a","w","s">>, <<"a","w","s","r","e","g","i","o","n">> }

\* The refresher was started and its first fetch failed, for either cause.
FirstFetchFailed == start.called /\ ~start.fetch.ok

C6_EmptySetSigns ==
    (Made /\ Keyed /\ FilterOn) =>
        /\ last.snapshot = EmptyRangeSet => FromSigner
        /\ last.ret.storeCalled => (lastGood.some /\ OriginInSnapshot)

\* C6 witness: no fetch has succeeded yet and a request with a valid address
\* was answered with a signed URL.
C6_Witness ==
    /\ Made /\ Keyed /\ FilterOn
    /\ ~lastGood.some
    /\ last.r.parses
    /\ last.ret.url.signed

\* C7: the signer's error is returned as it is, with no URL; when the signer
\* is not reached the result is the wrapped driver's, so the only error
\* RedirectURL adds is the signer's.
C7_SigningErrorPropagates ==
    Made =>
        /\ last.ret.sign.called =>
             /\ last.ret.err = last.signErr
             /\ last.signErr # NoErr => last.ret.url = NoURL
        /\ ~last.ret.sign.called => FromStore

\* C7 witness: the signer failed and its error came back.
C7_Witness ==
    /\ Made
    /\ last.ret.sign.called
    /\ last.signErr # NoErr
    /\ last.ret.err = last.signErr

\* C8, as claimed: the unsupported driver is reported at most once, however
\* many RedirectURL calls are made on it. RedirectURL logs the warning in
\* every call, so the second call on an unkeyed driver breaks it.
C8_ReportedOnce == warnings <= 1

\* The options with the legacy key moved to the correctly spelled one.
Respelled(options) ==
    [options EXCEPT !.updatefrequency = options.updatefrenquency,
                    !.updatefrenquency = Absent]
LegacyOnly == Has(opts.updatefrenquency) /\ ~Has(opts.updatefrequency)
FrequencyReached ==
    pc = "running" \/ (pc = "failed" /\ ctorErr.msg = "invalid updatefrequency")

\* The constructor logged the warning and did what the respelled options give.
AgreesWith(respelled) ==
    /\ deprecations = 1
    /\ ~respelled.deprecated
    /\ respelled.err = ctorErr
    /\ FilterOn => mw.awsIPs.updateFrequency = respelled.updateFrequency

\* C10: constructed with updatefrenquency = v alone, the middleware has the
\* refresh interval, or the constructor the invalid-updatefrequency error,
\* that updatefrequency = v gives, and the deprecation warning is logged;
\* with updatefrequency alone no warning is logged.
C10_LegacyAlias ==
    /\ (LegacyOnly /\ FrequencyReached) => AgreesWith(ParseUpdateFrequency(Respelled(opts)))
    /\ (pc # "new" /\ ~Has(opts.updatefrenquency)) => deprecations = 0

\* C10 witness: updatefrenquency = "1.5m" alone gave a refresher with an
\* interval of 90 seconds and one deprecation warning.
C10_Witness ==
    /\ FilterOn /\ LegacyOnly
    /\ opts.updatefrenquency = S(<<"1",".","5","m">>)
    /\ mw.awsIPs.updateFrequency = DurMul(90, Second)
    /\ deprecations = 1

====
